---- MODULE Spec2Model ----
(***************************************************************************)
(* A model of the Kaggle MCP server (A5an/kaggle-mcp).                     *)
(*                                                                         *)
(* The repository holds four deployments of the same tool set:             *)
(*   "modular"  src/src/server.ts + tools/*.ts + services/kaggle.service.ts*)
(*              (MCP SDK dispatcher, zod validators, KaggleService)        *)
(*   "standalone" src/unnamed/part_007 (standalone-server.js): the same    *)
(*              service and handlers behind one Express route per tool     *)
(*   "cli"      src/unnamed/part_001 (metorial server, kaggle CLI)         *)
(*   "rest"     src/server.ts        (metorial server, Kaggle REST API)    *)
(* plus the error classifier src/unnamed/part_004 (utils/errors.ts).       *)
(*                                                                         *)
(* JavaScript strings are TLA+ strings; String.prototype.includes,         *)
(* toLowerCase, substring and trim are computed character by character.    *)
(* JavaScript values that may be missing are tagged records (Undef, Str,   *)
(* Num) so that `x || default` is computed on falsiness as the code does.  *)
(***************************************************************************)
EXTENDS Integers, Sequences, FiniteSets, TLC

VARIABLES
    \* ---- error classifier harness (SpecClassify) ----
    msg,          \* the failure message handed to the classifier
    cls,          \* result of the last handleApiError(msg) call
    nCalls,       \* number of classifier calls made on msg
    \* ---- server and tool invocations (Spec) ----
    variant,      \* which deployment runs: "modular" | "standalone" | "cli" | "rest"
    config,       \* [username, key]: the credentials given at startup
    srv,          \* server lifecycle position
    probe,        \* what the startup credential probe found
    toRegister,   \* tools still to be registered at startup (in order)
    callHandler,  \* modular: the tool the CallTool request handler closes over
    registry,     \* metorial: names registered with server.registerTool
    inv,          \* the invocation in progress (or idle)
    trace,        \* what the invocation has done so far (events, in order)
    extCalls,     \* external calls (subprocess / HTTP) made by the invocation
    fsTemp,       \* files present under ./temp_submissions
    response,     \* what the caller got back from the last invocation
    \* ---- two concurrent submissions (SpecSubmit) ----
    subs,         \* the two submit_to_competition invocations, side by side
    \* ---- GET /health (Spec) ----
    health        \* the health request in progress, or the last answer

clsVars == <<msg, cls, nCalls>>
srvVars == <<variant, config, srv, probe, toRegister, callHandler, registry,
             inv, trace, extCalls, fsTemp, response>>
vars == <<msg, cls, nCalls, variant, config, srv, probe, toRegister, callHandler,
          registry, inv, trace, extCalls, fsTemp, response,
         subs, health>>

(***************************************************************************)
(* JavaScript strings                                                      *)
(***************************************************************************)

\* String.prototype.includes
includes(s, kw) ==
    \E i \in 1..(Len(s) - Len(kw) + 1) : SubSeq(s, i, i + Len(kw) - 1) = kw

UpperChars == "ABCDEFGHIJKLMNOPQRSTUVWXYZ"
LowerChars == "abcdefghijklmnopqrstuvwxyz"

toLowerChar(c) ==
    IF \E k \in 1..Len(UpperChars) : SubSeq(UpperChars, k, k) = c
    THEN LET k == CHOOSE k \in 1..Len(UpperChars) : SubSeq(UpperChars, k, k) = c
         IN  SubSeq(LowerChars, k, k)
    ELSE c

RECURSIVE toLowerCase(_)
\* String.prototype.toLowerCase
toLowerCase(s) ==
    IF Len(s) = 0 THEN ""
    ELSE IF Len(s) = 1 THEN toLowerChar(s)
    ELSE LET h == Len(s) \div 2
         IN  toLowerCase(SubSeq(s, 1, h)) \o toLowerCase(SubSeq(s, h + 1, Len(s)))

(***************************************************************************)
(* Error classifier: src/unnamed/part_004 (utils/errors.ts)                *)
(***************************************************************************)

AUTHENTICATION == "AUTHENTICATION"
VALIDATION == "VALIDATION"
COMMAND_EXECUTION == "COMMAND_EXECUTION"
FILE_SYSTEM == "FILE_SYSTEM"
NETWORK == "NETWORK"
UNKNOWN == "UNKNOWN"
ErrorCategory ==
    {AUTHENTICATION, VALIDATION, COMMAND_EXECUTION, FILE_SYSTEM, NETWORK, UNKNOWN}

MISSING_CREDENTIALS == "MISSING_CREDENTIALS"
INVALID_CREDENTIALS == "INVALID_CREDENTIALS"
INVALID_INPUT == "INVALID_INPUT"
COMMAND_FAILED == "COMMAND_FAILED"
NOT_FOUND == "NOT_FOUND"
ACCESS_DENIED == "ACCESS_DENIED"
TIMEOUT == "TIMEOUT"
NETWORK_ERROR == "NETWORK_ERROR"
FILE_NOT_FOUND == "FILE_NOT_FOUND"
PERMISSION_DENIED == "PERMISSION_DENIED"
ErrorCode ==
    {MISSING_CREDENTIALS, INVALID_CREDENTIALS, INVALID_INPUT, COMMAND_FAILED,
     NOT_FOUND, ACCESS_DENIED, TIMEOUT, NETWORK_ERROR, FILE_NOT_FOUND,
     PERMISSION_DENIED}

\* A plausible slip: the status markers 404/403 are not looked at, every
\* execution failure gets the default code.
getErrorCode_noStatus(message, category) ==
    LET lowerMessage == toLowerCase(message) IN
    CASE category = AUTHENTICATION ->
            IF includes(lowerMessage, "missing") \/ includes(lowerMessage, "required")
            THEN MISSING_CREDENTIALS ELSE INVALID_CREDENTIALS
      [] category = VALIDATION -> INVALID_INPUT
      [] category = COMMAND_EXECUTION ->
            IF includes(lowerMessage, "timeout") THEN TIMEOUT ELSE COMMAND_FAILED
      [] category = FILE_SYSTEM ->
            IF includes(lowerMessage, "not found") THEN FILE_NOT_FOUND
            ELSE IF includes(lowerMessage, "permission") THEN PERMISSION_DENIED
            ELSE COMMAND_FAILED
      [] category = NETWORK -> NETWORK_ERROR
      [] OTHER -> COMMAND_FAILED

\* A plausible slip: the command-execution test is made before the
\* authentication and validation tests.
categorizeError_execFirst(message) ==
    LET lowerMessage == toLowerCase(message) IN
    IF includes(lowerMessage, "command") \/ includes(lowerMessage, "exec")
    THEN COMMAND_EXECUTION
    ELSE IF includes(lowerMessage, "credential") \/ includes(lowerMessage, "authentication")
    THEN AUTHENTICATION
    ELSE IF includes(lowerMessage, "validation") \/ includes(lowerMessage, "invalid")
    THEN VALIDATION
    ELSE IF includes(lowerMessage, "file") \/ includes(lowerMessage, "directory")
    THEN FILE_SYSTEM
    ELSE IF includes(lowerMessage, "network") \/ includes(lowerMessage, "timeout")
            \/ includes(lowerMessage, "connection")
    THEN NETWORK
    ELSE UNKNOWN

categorizeError(message) ==
    LET lowerMessage == toLowerCase(message) IN
    IF includes(lowerMessage, "credential") \/ includes(lowerMessage, "authentication")
    THEN AUTHENTICATION
    ELSE IF includes(lowerMessage, "validation") \/ includes(lowerMessage, "invalid")
    THEN VALIDATION
    ELSE IF includes(lowerMessage, "command") \/ includes(lowerMessage, "exec")
    THEN COMMAND_EXECUTION
    ELSE IF includes(lowerMessage, "file") \/ includes(lowerMessage, "directory")
    THEN FILE_SYSTEM
    ELSE IF includes(lowerMessage, "network") \/ includes(lowerMessage, "timeout")
            \/ includes(lowerMessage, "connection")
    THEN NETWORK
    ELSE UNKNOWN

getUserFriendlyMessage(message, category) ==
    CASE category = AUTHENTICATION ->
            "Authentication failed. Please check your Kaggle credentials."
      [] category = VALIDATION ->
            "Invalid input provided. Please check your parameters and try again."
      [] category = COMMAND_EXECUTION ->
            IF includes(message, "404")
            THEN "The requested resource was not found or access is denied."
            ELSE IF includes(message, "403")
            THEN "Access denied. You may need to accept competition rules or check permissions."
            ELSE "Command execution failed. Please try again later."
      [] category = FILE_SYSTEM ->
            "File system operation failed. Please check permissions and available space."
      [] category = NETWORK ->
            "Network error occurred. Please check your connection and try again."
      [] OTHER -> "An unexpected error occurred. Please try again later."

getErrorCode(message, category) ==
    LET lowerMessage == toLowerCase(message) IN
    CASE category = AUTHENTICATION ->
            IF includes(lowerMessage, "missing") \/ includes(lowerMessage, "required")
            THEN MISSING_CREDENTIALS ELSE INVALID_CREDENTIALS
      [] category = VALIDATION -> INVALID_INPUT
      [] category = COMMAND_EXECUTION ->
            IF includes(lowerMessage, "404") THEN NOT_FOUND
            ELSE IF includes(lowerMessage, "403") THEN ACCESS_DENIED
            ELSE IF includes(lowerMessage, "timeout") THEN TIMEOUT
            ELSE COMMAND_FAILED
      [] category = FILE_SYSTEM ->
            IF includes(lowerMessage, "not found") THEN FILE_NOT_FOUND
            ELSE IF includes(lowerMessage, "permission") THEN PERMISSION_DENIED
            ELSE COMMAND_FAILED
      [] category = NETWORK -> NETWORK_ERROR
      [] OTHER -> COMMAND_FAILED

\* createErrorResponse(message, code): details is never passed by handleApiError
createErrorResponse(message, code) == [error |-> message, code |-> code]

\* handleApiError: the response object that is JSON.stringify-ed, together
\* with the category the classifier chose for it.
handleApiError(message) ==
    LET category == categorizeError(message)
        userMessage == getUserFriendlyMessage(message, category)
        errorCode == getErrorCode(message, category)
    IN  [category |-> category,
         body |-> createErrorResponse(userMessage, errorCode)]

(***************************************************************************)
(* Classifier harness: failure messages drawn from a bounded vocabulary    *)
(***************************************************************************)

\* Longest message, in fragments.
MaxFrags == 2
\* How often the classifier is called on the same message.
MaxClassifyCalls == 2

\* Every keyword the classifier looks for (some in upper or mixed case, to
\* exercise toLowerCase), and a word it does not know.
Fragments ==
    <<"Credential", "authentication", "validation", "Invalid", "Command failed",
      "exec", "404", "403", "file", "Directory", "network", "TIMEOUT",
      "connection", "missing", "required", "not found", "permission", "oops">>

RECURSIVE JoinFragments(_)
JoinFragments(idx) ==
    IF Len(idx) = 0 THEN ""
    ELSE IF Len(idx) = 1 THEN Fragments[idx[1]]
    ELSE Fragments[idx[1]] \o " " \o JoinFragments(Tail(idx))

Messages ==
    { JoinFragments(idx) :
        idx \in UNION { [1..n -> 1..Len(Fragments)] : n \in 0..MaxFrags } }

NoClassification == [category |-> "none", body |-> [error |-> "", code |-> "none"]]

\* One call of handleApiError on the message under test.
Classify ==
    /\ nCalls < MaxClassifyCalls
    /\ cls' = handleApiError(msg)
    /\ nCalls' = nCalls + 1
    /\ UNCHANGED <<msg>>
    /\ UNCHANGED <<srvVars, subs, health>>

(***************************************************************************)
(* JavaScript values                                                       *)
(***************************************************************************)

Undef == [t |-> "undefined"]
Null == [t |-> "null"]
Str(s) == [t |-> "string", v |-> s]
Num(n) == [t |-> "number", v |-> n]
Bool(b) == [t |-> "boolean", v |-> b]
Arr(items) == [t |-> "array", v |-> items]

\* ToBoolean(x) is false: what `!x` and the left side of `x || d` test
Falsy(x) ==
    \/ x.t = "undefined"
    \/ x.t = "null"
    \/ (x.t = "string" /\ x.v = "")
    \/ (x.t = "number" /\ x.v = 0)
    \/ (x.t = "boolean" /\ x.v = FALSE)

\* x || d
OrElse(x, d) == IF Falsy(x) THEN d ELSE x

IsString(x) == x.t = "string"

Whitespace == {" ", "\n", "\t"}

RECURSIVE trimStart(_)
trimStart(s) ==
    IF Len(s) > 0 /\ SubSeq(s, 1, 1) \in Whitespace
    THEN trimStart(SubSeq(s, 2, Len(s))) ELSE s

RECURSIVE trimEnd(_)
trimEnd(s) ==
    IF Len(s) > 0 /\ SubSeq(s, Len(s), Len(s)) \in Whitespace
    THEN trimEnd(SubSeq(s, 1, Len(s) - 1)) ELSE s

\* String.prototype.trim
trim(s) == trimEnd(trimStart(s))

\* String.prototype.substring(0, n)
substring0(s, n) == IF Len(s) <= n THEN s ELSE SubSeq(s, 1, n)

RECURSIVE Repeat(_, _)
Repeat(c, n) ==
    IF n = 0 THEN ""
    ELSE IF n % 2 = 1 THEN c \o Repeat(c, n - 1)
    ELSE LET h == Repeat(c, n \div 2) IN h \o h

\* The raw arguments of a request: no object at all, or an object holding
\* some fields.
RawNull == [kind |-> "null"]
RawObj(fields) == [kind |-> "object", f |-> fields]

\* input.name on an object (undefined when the field is absent)
Get(o, name) ==
    IF o.kind = "object" /\ name \in DOMAIN o.f THEN o.f[name] ELSE Undef

(***************************************************************************)
(* Input validation: src/src/utils/validation.ts (zod schemas)             *)
(*                                                                         *)
(* A validator returns [ok |-> TRUE, value |-> the parsed object] or       *)
(* [ok |-> FALSE, error |-> the ZodError message]; the ZodError message is *)
(* modelled as the issues' messages joined (zod prints them as JSON).      *)
(***************************************************************************)

WordChars == "abcdefghijklmnopqrstuvwxyzABCDEFGHIJKLMNOPQRSTUVWXYZ0123456789_"

\* \w
IsWordChar(c) == includes(WordChars, c)

\* [\w\-\.]
IsDatasetRefChar(c) == IsWordChar(c) \/ c = "-" \/ c = "."

\* [\w\-]
IsCompetitionIdChar(c) == IsWordChar(c) \/ c = "-"

\* /^[\w\-\.]+\/[\w\-\.]+$/
matchesDatasetRef(s) ==
    \E i \in 2..(Len(s) - 1) :
        /\ SubSeq(s, i, i) = "/"
        /\ \A j \in (1..Len(s)) \ {i} : IsDatasetRefChar(SubSeq(s, j, j))

\* /^[\w\-]+$/
matchesCompetitionId(s) ==
    /\ Len(s) >= 1
    /\ \A j \in 1..Len(s) : IsCompetitionIdChar(SubSeq(s, j, j))

RECURSIVE JoinIssues(_)
JoinIssues(issues) ==
    IF Len(issues) = 0 THEN ""
    ELSE IF Len(issues) = 1 THEN issues[1]
    ELSE issues[1] \o "; " \o JoinIssues(Tail(issues))

ZodFail(issues) == [ok |-> FALSE, error |-> JoinIssues(issues)]
ZodOk(value) == [ok |-> TRUE, value |-> value]

\* z.string(): the type issue of a value that is no string
TypeIssue(x) ==
    IF x.t = "undefined" THEN <<"Required">>
    ELSE <<"Expected string, received " \o x.t>>

\* z.string().min(1, 'Query cannot be empty').max(100, 'Query too long')
QueryIssues(x) ==
    IF ~IsString(x) THEN TypeIssue(x)
    ELSE (IF Len(x.v) < 1 THEN <<"Query cannot be empty">> ELSE <<>>)
         \o (IF Len(x.v) > 100 THEN <<"Query too long">> ELSE <<>>)

\* A plausible slip: the format of the reference is not checked, only its
\* length.
DatasetRefIssues_lengthOnly(x) ==
    IF ~IsString(x) THEN TypeIssue(x)
    ELSE (IF Len(x.v) < 3 THEN <<"Dataset reference too short">> ELSE <<>>)
         \o (IF Len(x.v) > 100 THEN <<"Dataset reference too long">> ELSE <<>>)

\* z.string().regex(...).min(3, ...).max(100, ...)
DatasetRefIssues(x) ==
    IF ~IsString(x) THEN TypeIssue(x)
    ELSE (IF ~matchesDatasetRef(x.v)
          THEN <<"Dataset reference must be in format \"username/dataset-name\"">>
          ELSE <<>>)
         \o (IF Len(x.v) < 3 THEN <<"Dataset reference too short">> ELSE <<>>)
         \o (IF Len(x.v) > 100 THEN <<"Dataset reference too long">> ELSE <<>>)

\* z.string().min(1, ...).max(50, ...).regex(...)
CompetitionIdIssues(x) ==
    IF ~IsString(x) THEN TypeIssue(x)
    ELSE (IF Len(x.v) < 1 THEN <<"Competition ID cannot be empty">> ELSE <<>>)
         \o (IF Len(x.v) > 50 THEN <<"Competition ID too long">> ELSE <<>>)
         \o (IF ~matchesCompetitionId(x.v)
             THEN <<"Competition ID can only contain letters, numbers, and hyphens">>
             ELSE <<>>)

\* z.string().optional()
OptionalStringIssues(x) ==
    IF x.t = "undefined" \/ IsString(x) THEN <<>>
    ELSE <<"Expected string, received " \o x.t>>

NotAnObject == <<"Expected object, received null">>

\* A plausible slip: the schema is not applied, the raw fields are passed on.
validateDatasetSearch_noCheck(input) == ZodOk([query |-> Get(input, "query")])

validateDatasetSearch(input) ==
    IF input.kind # "object" THEN ZodFail(NotAnObject)
    ELSE LET issues == QueryIssues(Get(input, "query")) IN
         IF issues = <<>> THEN ZodOk([query |-> Get(input, "query")])
         ELSE ZodFail(issues)

validateDatasetDownload(input) ==
    IF input.kind # "object" THEN ZodFail(NotAnObject)
    ELSE LET issues == DatasetRefIssues(Get(input, "dataset_ref"))
                       \o OptionalStringIssues(Get(input, "download_path")) IN
         IF issues = <<>>
         THEN ZodOk([dataset_ref |-> Get(input, "dataset_ref"),
                     download_path |-> Get(input, "download_path")])
         ELSE ZodFail(issues)

validateCompetitionSearch(input) ==
    IF input.kind # "object" THEN ZodFail(NotAnObject)
    ELSE LET issues == QueryIssues(Get(input, "query")) IN
         IF issues = <<>> THEN ZodOk([query |-> Get(input, "query")])
         ELSE ZodFail(issues)

validateCompetitionDownload(input) ==
    IF input.kind # "object" THEN ZodFail(NotAnObject)
    ELSE LET issues == CompetitionIdIssues(Get(input, "competition_id"))
                       \o OptionalStringIssues(Get(input, "download_path")) IN
         IF issues = <<>>
         THEN ZodOk([competition_id |-> Get(input, "competition_id"),
                     download_path |-> Get(input, "download_path")])
         ELSE ZodFail(issues)

\* A plausible slip: only the user name is required.
validateEnvironment_userOnly(env) == env.username # ""

\* EnvironmentSchema: KAGGLE_USERNAME and KAGGLE_KEY are z.string().min(1)
validateEnvironment(env) == env.username # "" /\ env.key # ""

\* `${x}` in a template literal
Template(x) ==
    CASE x.t = "string" -> x.v
      [] x.t = "number" -> ToString(x.v)
      [] x.t = "boolean" -> (IF x.v THEN "true" ELSE "false")
      [] x.t = "null" -> "null"
      [] OTHER -> "undefined"

\* s.split('/')[0]: the text before the first slash
splitSlashFirst(s) ==
    IF ~includes(s, "/") THEN Str(s)
    ELSE LET i == CHOOSE i \in 1..Len(s) :
                    /\ SubSeq(s, i, i) = "/"
                    /\ \A j \in 1..(i - 1) : SubSeq(s, j, j) # "/"
         IN  Str(SubSeq(s, 1, i - 1))

\* s.split('/')[1]: the text between the first slash and the second one
\* (undefined when s holds no slash)
splitSlashSecond(s) ==
    IF ~includes(s, "/") THEN Undef
    ELSE LET i == CHOOSE i \in 1..Len(s) :
                    /\ SubSeq(s, i, i) = "/"
                    /\ \A j \in 1..(i - 1) : SubSeq(s, j, j) # "/"
             rest == SubSeq(s, i + 1, Len(s))
         IN  IF ~includes(rest, "/") THEN Str(rest)
             ELSE LET k == CHOOSE k \in 1..Len(rest) :
                             /\ SubSeq(rest, k, k) = "/"
                             /\ \A j \in 1..(k - 1) : SubSeq(rest, j, j) # "/"
                  IN  Str(SubSeq(rest, 1, k - 1))

(***************************************************************************)
(* Output of an external operation                                         *)
(*                                                                         *)
(* A captured output is its text together with what JSON.parse makes of    *)
(* that text: a syntax error, an array of entries, or some other value.    *)
(***************************************************************************)

\* obj holds the fields of a parsed JSON object (none for other values)
NoFields == [x \in {} |-> Undef]
JsonError(m) ==
    [ok |-> FALSE, isArray |-> FALSE, items |-> <<>>, obj |-> NoFields, error |-> m]
JsonArray(items) ==
    [ok |-> TRUE, isArray |-> TRUE, items |-> items, obj |-> NoFields, error |-> ""]
JsonOther ==
    [ok |-> TRUE, isArray |-> FALSE, items |-> <<>>, obj |-> NoFields, error |-> ""]
JsonObject(fields) ==
    [ok |-> TRUE, isArray |-> FALSE, items |-> <<>>, obj |-> fields, error |-> ""]

\* value.name on a parsed JSON value
Field(json, name) == IF name \in DOMAIN json.obj THEN json.obj[name] ELSE Undef

OutText(s) ==
    [text |-> s,
     json |-> JsonError(IF trim(s) = "" THEN "Unexpected end of JSON input"
                        ELSE "Unexpected token in JSON at position 0")]
OutArray(items) ==
    [text |-> "[" \o ToString(Len(items)) \o " entries]", json |-> JsonArray(items)]
OutObject == [text |-> "{\"message\": \"ok\"}", json |-> JsonOther]
OutFields(fields) == [text |-> "{...}", json |-> JsonObject(fields)]

\* out.trim()
trimOut(out) == [text |-> trim(out.text), json |-> out.json]

\* The ways an exec() of a command ends: exit status 0, or an error (non-zero
\* exit status, killed at the timeout, spawn failure) whose message node
\* builds from the command and the captured stderr.
ExecOk(stdout, stderr) ==
    [kind |-> "ok", message |-> "", stdout |-> stdout, stderr |-> stderr]
ExecFail(message, stderr) ==
    [kind |-> "fail", message |-> message, stdout |-> OutText(""), stderr |-> stderr]
\* The subprocess outlived the timeout of exec: node kills it (SIGTERM) and
\* rejects with the error of a failed command, its killed flag set; the
\* message does not say that time ran out.
ExecKilled(cmd) ==
    [kind |-> "fail", message |-> "Command failed: " \o cmd \o "\n",
     stdout |-> OutText(""), stderr |-> "", killed |-> TRUE]

\* The ways a fetch() ends: a response with a status, or a rejection
\* (network failure).
HttpResponse(status, statusText, body) ==
    [kind |-> "http", message |-> "", stdout |-> body, stderr |-> "",
     status |-> status, statusText |-> statusText]
FetchRejected(message) ==
    [kind |-> "reject", message |-> message, stdout |-> OutText(""), stderr |-> "",
     status |-> 0, statusText |-> ""]

\* The ways a file operation ends
FsOk == [kind |-> "ok", message |-> "", stdout |-> OutText(""), stderr |-> ""]
FsFail(message) ==
    [kind |-> "fail", message |-> message, stdout |-> OutText(""), stderr |-> ""]

\* An external operation a handler awaits: a subprocess ("exec"), an HTTP
\* request ("fetch") or a file operation ("mkdir", "writeFile", "unlink").
\* stage numbers the awaits of one handler; timeout 0 means none is set.
Call(op, target, timeoutMs, stage, content) ==
    [op |-> op, target |-> target, timeout |-> timeoutMs, stage |-> stage,
     content |-> content]
ExecCall(cmd, timeoutMs) == Call("exec", cmd, timeoutMs, 1, "")

(***************************************************************************)
(* KaggleService: src/src/services/kaggle.service.ts                       *)
(***************************************************************************)

\* !this.kaggleUsername || !this.kaggleKey
credentialsMissing(cfg) == cfg.username = "" \/ cfg.key = ""

\* executeCommand, lines 26-31: the result returned without running anything
executeCommand_rejected ==
    [success |-> FALSE, stdout |-> OutText(""),
     stderr |-> "Kaggle credentials not configured",
     error |-> "KAGGLE_USERNAME and KAGGLE_KEY environment variables are required"]

\* A plausible slip: the catch block reports the command as run.
executeCommand_settled_optimistic(outcome) ==
    [success |-> TRUE, stdout |-> trimOut(outcome.stdout),
     stderr |-> trim(outcome.stderr), error |-> ""]

\* executeCommand, lines 49-61: the result once execAsync has settled
executeCommand_settled(outcome) ==
    IF outcome.kind = "ok"
    THEN [success |-> TRUE, stdout |-> trimOut(outcome.stdout),
          stderr |-> trim(outcome.stderr), error |-> ""]
    ELSE [success |-> FALSE,
          stdout |-> outcome.stdout,
          stderr |-> IF outcome.stderr # "" THEN outcome.stderr ELSE outcome.message,
          error |-> outcome.message]

\* A thrown exception or a returned value of a service method
Threw(m) == [threw |-> TRUE, error |-> m, value |-> <<>>]
Returned(v) == [threw |-> FALSE, error |-> "", value |-> v]

\* Array.prototype.slice(0, n)
slice0(seq, n) == IF Len(seq) <= n THEN seq ELSE SubSeq(seq, 1, n)

\* Array.prototype.map
map(seq, f(_)) == [i \in 1..Len(seq) |-> f(seq[i])]

\* The number of results a search returns at most.
ResultCap == 10

\* A plausible slip: the count is passed on without its default.
normalizeDataset_noDefault(ds) ==
    [ref |-> OrElse(ds.ref, Str("N/A")),
     title |-> OrElse(ds.title, Str("N/A")),
     subtitle |-> OrElse(ds.subtitle, Str("N/A")),
     downloadCount |-> ds.downloadCount,
     lastUpdated |-> OrElse(ds.lastUpdated, Str("N/A")),
     usabilityRating |-> OrElse(ds.usabilityRating, Str("N/A"))]

normalizeDataset(ds) ==
    [ref |-> OrElse(ds.ref, Str("N/A")),
     title |-> OrElse(ds.title, Str("N/A")),
     subtitle |-> OrElse(ds.subtitle, Str("N/A")),
     downloadCount |-> OrElse(ds.downloadCount, Num(0)),
     lastUpdated |-> OrElse(ds.lastUpdated, Str("N/A")),
     usabilityRating |-> OrElse(ds.usabilityRating, Str("N/A"))]

searchDatasets_command(query) ==
    "kaggle datasets list -s \"" \o Template(query) \o "\" --json"

\* A plausible slip: the cap is applied from the wrong end (the last entries).
searchDatasets_result_tail(result) ==
    IF ~result.success THEN Threw("Dataset search failed: " \o result.stderr)
    ELSE IF trim(result.stdout.text) = "" THEN Returned(<<>>)
    ELSE IF ~result.stdout.json.ok
    THEN Threw("Failed to parse dataset search results: " \o result.stdout.json.error)
    ELSE IF ~result.stdout.json.isArray
    THEN Threw("Failed to parse dataset search results: datasets.slice is not a function")
    ELSE LET all == result.stdout.json.items
             n == Len(all)
         IN  Returned(map(IF n <= ResultCap THEN all
                          ELSE SubSeq(all, n - ResultCap + 1, n), normalizeDataset))

\* searchDatasets, lines 92-113: what the method makes of the command result
searchDatasets_result(result) ==
    IF ~result.success THEN Threw("Dataset search failed: " \o result.stderr)
    ELSE IF trim(result.stdout.text) = "" THEN Returned(<<>>)
    ELSE IF ~result.stdout.json.ok
    THEN Threw("Failed to parse dataset search results: " \o result.stdout.json.error)
    ELSE IF ~result.stdout.json.isArray
    THEN Threw("Failed to parse dataset search results: datasets.slice is not a function")
    ELSE Returned(map(slice0(result.stdout.json.items, ResultCap), normalizeDataset))

\* A plausible slip: the ellipsis is appended only to a description that was
\* cut.
normalizeCompetition_cutOnly(comp) ==
    [ref |-> OrElse(comp.ref, Str("N/A")),
     title |-> OrElse(comp.title, Str("N/A")),
     description |->
        LET d == OrElse(comp.description, Str("N/A")).v IN
        Str(IF Len(d) > 200 THEN substring0(d, 200) \o "..." ELSE d),
     url |-> Str("https://www.kaggle.com/competitions/"
                 \o Template(OrElse(comp.ref, Str("")))),
     deadline |-> OrElse(comp.deadline, Str("N/A")),
     category |-> OrElse(comp.category, Str("N/A")),
     reward |-> OrElse(comp.reward, Str("N/A")),
     teamCount |-> OrElse(comp.teamCount, Num(0)),
     userHasEntered |-> OrElse(comp.userHasEntered, Bool(FALSE))]

normalizeCompetition(comp) ==
    [ref |-> OrElse(comp.ref, Str("N/A")),
     title |-> OrElse(comp.title, Str("N/A")),
     description |-> Str(substring0(OrElse(comp.description, Str("N/A")).v, 200) \o "..."),
     url |-> Str("https://www.kaggle.com/competitions/"
                 \o Template(OrElse(comp.ref, Str("")))),
     deadline |-> OrElse(comp.deadline, Str("N/A")),
     category |-> OrElse(comp.category, Str("N/A")),
     reward |-> OrElse(comp.reward, Str("N/A")),
     teamCount |-> OrElse(comp.teamCount, Num(0)),
     userHasEntered |-> OrElse(comp.userHasEntered, Bool(FALSE))]

searchCompetitions_command(query) ==
    "kaggle competitions list -s \"" \o Template(query) \o "\" --json"

\* searchCompetitions, lines 146-170
searchCompetitions_result(result) ==
    IF ~result.success THEN Threw("Competition search failed: " \o result.stderr)
    ELSE IF trim(result.stdout.text) = "" THEN Returned(<<>>)
    ELSE IF ~result.stdout.json.ok
    THEN Threw("Failed to parse competition search results: " \o result.stdout.json.error)
    ELSE IF ~result.stdout.json.isArray
    THEN Threw("Failed to parse competition search results: competitions.slice is not a function")
    ELSE Returned(map(slice0(result.stdout.json.items, ResultCap), normalizeCompetition))

\* A plausible slip: the caller's path is ignored.
downloadDataset_path_default(ref, path) ==
    "./datasets/" \o Template(splitSlashSecond(Template(ref)))

\* downloadDataset, line 118
downloadDataset_path(ref, path) ==
    Template(OrElse(path, Str("./datasets/" \o Template(splitSlashSecond(Template(ref))))))

downloadDataset_command(ref, downloadPath) ==
    "kaggle datasets download " \o Template(ref) \o " -p " \o downloadPath \o " --unzip"

\* A plausible slip: a failed download reports no path.
download_result_noPath(result, downloadPath) ==
    IF ~result.success
    THEN [success |-> FALSE, downloadPath |-> "", downloadedFiles |-> <<>>,
          fileCount |-> 0,
          error |-> Str(IF result.stderr # "" THEN result.stderr ELSE "Download failed")]
    ELSE [success |-> TRUE, downloadPath |-> downloadPath, downloadedFiles |-> <<>>,
          fileCount |-> 0, error |-> Undef]

\* downloadDataset / downloadCompetitionData: the DownloadResult made of the
\* command result (lines 123-139 and 180-196)
download_result(result, downloadPath) ==
    IF ~result.success
    THEN [success |-> FALSE, downloadPath |-> downloadPath, downloadedFiles |-> <<>>,
          fileCount |-> 0,
          error |-> Str(IF result.stderr # "" THEN result.stderr ELSE "Download failed")]
    ELSE [success |-> TRUE, downloadPath |-> downloadPath, downloadedFiles |-> <<>>,
          fileCount |-> 0, error |-> Undef]

\* downloadCompetitionData, line 175
downloadCompetitionData_path(id, path) ==
    Template(OrElse(path, Str("./competitions/" \o Template(id))))

downloadCompetitionData_command(id, downloadPath) ==
    "kaggle competitions download " \o Template(id) \o " -p " \o downloadPath

(***************************************************************************)
(* Tool handlers                                                           *)
(*                                                                         *)
(* A handler runs up to its first await of an external operation and is    *)
(* resumed when that operation settles.  `..._start` is the part before    *)
(* the await: it ends the invocation (Finished) or issues the operation    *)
(* (Awaiting); `..._resume` is the part after it.  The trace lists what    *)
(* the invocation did: "validate", "executor" (the Executor was entered),  *)
(* "credcheck" (the credentials were looked at), "external" (a subprocess  *)
(* or an HTTP request was started), "classifier".                          *)
(***************************************************************************)

\* What a handler gives back: a JSON payload, or an exception
Payload(body) == [threw |-> FALSE, body |-> body, error |-> ""]
Raise(m) == [threw |-> TRUE, body |-> [error |-> m], error |-> m]

Finished(tr, ret) ==
    [done |-> TRUE, trace |-> tr, ret |-> ret, args |-> <<>>, call |-> <<>>]
Awaiting(tr, args, call) ==
    [done |-> FALSE, trace |-> tr, ret |-> Payload(<<>>), args |-> args, call |-> call]

\* ---- modular deployment: src/unnamed/part_003 (tools/dataset.tools.ts) ----

\* search_kaggle_datasets handler, lines 23-33: the payload for the results
M_searchDatasets_payload(results) ==
    IF Len(results) = 0
    THEN [message |-> "No datasets found matching the query.", results |-> <<>>]
    ELSE [message |-> "Found " \o ToString(Len(results)) \o " datasets",
          results |-> results]

\* ... and lines 21-40 around it
M_searchDatasets_finish(r) ==
    IF r.threw THEN Payload([error |-> "Error searching datasets: " \o r.error])
    ELSE Payload(M_searchDatasets_payload(r.value))

M_search_kaggle_datasets_start(input, cfg) ==
    LET v == validateDatasetSearch(input) IN
    IF ~v.ok
    THEN Finished(<<"validate">>,
                  Payload([error |-> "Error searching datasets: " \o v.error]))
    ELSE IF credentialsMissing(cfg)
    THEN Finished(<<"validate", "executor", "credcheck">>,
                  M_searchDatasets_finish(searchDatasets_result(executeCommand_rejected)))
    ELSE Awaiting(<<"validate", "executor", "credcheck", "external">>, v.value,
                  ExecCall(searchDatasets_command(v.value.query), 300000))

M_search_kaggle_datasets_resume(args, outcome) ==
    M_searchDatasets_finish(searchDatasets_result(executeCommand_settled(outcome)))

\* download_kaggle_dataset handler, lines 73-86: the catch block
M_downloadDataset_catch(input, message) ==
    IF includes(message, "404")
    THEN IF input.kind # "object"
         THEN Raise("Cannot read properties of null (reading 'dataset_ref')")
         ELSE Payload([error |-> "Dataset '" \o Template(Get(input, "dataset_ref"))
                                 \o "' not found or access denied."])
    ELSE Payload([error |-> "Error downloading dataset: " \o message])

\* lines 57-71: the payload for a DownloadResult
M_downloadDataset_finish(args, result) ==
    IF ~result.success
    THEN Payload([error |-> Template(OrElse(result.error, Str("Download failed"))),
                  dataset_ref |-> Template(args.dataset_ref)])
    ELSE Payload([success |-> TRUE,
                  message |-> "Successfully downloaded dataset '"
                              \o Template(args.dataset_ref) \o "'",
                  dataset_ref |-> Template(args.dataset_ref),
                  download_path |-> result.downloadPath,
                  downloaded_files |-> result.downloadedFiles,
                  file_count |-> result.fileCount])

M_download_kaggle_dataset_start(input, cfg) ==
    LET v == validateDatasetDownload(input) IN
    IF ~v.ok THEN Finished(<<"validate">>, M_downloadDataset_catch(input, v.error))
    ELSE LET path == downloadDataset_path(v.value.dataset_ref, v.value.download_path) IN
         IF credentialsMissing(cfg)
         THEN Finished(<<"validate", "executor", "credcheck">>,
                       M_downloadDataset_finish(v.value,
                           download_result(executeCommand_rejected, path)))
         ELSE Awaiting(<<"validate", "executor", "credcheck", "external">>, v.value,
                       ExecCall(downloadDataset_command(v.value.dataset_ref, path), 300000))

M_download_kaggle_dataset_resume(args, outcome) ==
    M_downloadDataset_finish(args,
        download_result(executeCommand_settled(outcome),
                        downloadDataset_path(args.dataset_ref, args.download_path)))

\* ---- modular deployment: src/src/tools/competition.tools.ts ----

M_searchCompetitions_finish(r) ==
    IF r.threw THEN Payload([error |-> "Error searching competitions: " \o r.error])
    ELSE IF Len(r.value) = 0
    THEN Payload([message |-> "No competitions found matching the query.",
                  results |-> <<>>])
    ELSE Payload([message |-> "Found " \o ToString(Len(r.value)) \o " competitions",
                  results |-> r.value])

M_search_kaggle_competitions_start(input, cfg) ==
    LET v == validateCompetitionSearch(input) IN
    IF ~v.ok
    THEN Finished(<<"validate">>,
                  Payload([error |-> "Error searching competitions: " \o v.error]))
    ELSE IF credentialsMissing(cfg)
    THEN Finished(<<"validate", "executor", "credcheck">>,
                  M_searchCompetitions_finish(
                      searchCompetitions_result(executeCommand_rejected)))
    ELSE Awaiting(<<"validate", "executor", "credcheck", "external">>, v.value,
                  ExecCall(searchCompetitions_command(v.value.query), 300000))

M_search_kaggle_competitions_resume(args, outcome) ==
    M_searchCompetitions_finish(
        searchCompetitions_result(executeCommand_settled(outcome)))

\* download_competition_data handler, lines 73-91 (of the tools file): catch
M_downloadCompetition_catch(input, message) ==
    IF includes(message, "404") \/ includes(message, "403")
    THEN IF input.kind # "object"
         THEN Raise("Cannot read properties of null (reading 'competition_id')")
         ELSE IF includes(message, "404")
         THEN Payload([error |-> "Competition '" \o Template(Get(input, "competition_id"))
                                 \o "' not found or access denied."])
         ELSE Payload([error |-> "Access denied to competition '"
                                 \o Template(Get(input, "competition_id"))
                                 \o "'. You may need to accept the competition rules first."])
    ELSE Payload([error |-> "Error downloading competition data: " \o message])

M_downloadCompetition_finish(args, result) ==
    IF ~result.success
    THEN Payload([error |-> Template(OrElse(result.error, Str("Download failed"))),
                  competition_id |-> Template(args.competition_id)])
    ELSE Payload([success |-> TRUE,
                  message |-> "Successfully downloaded competition data for '"
                              \o Template(args.competition_id) \o "'",
                  competition_id |-> Template(args.competition_id),
                  download_path |-> result.downloadPath,
                  downloaded_files |-> result.downloadedFiles,
                  file_count |-> result.fileCount])

M_download_competition_data_start(input, cfg) ==
    LET v == validateCompetitionDownload(input) IN
    IF ~v.ok THEN Finished(<<"validate">>, M_downloadCompetition_catch(input, v.error))
    ELSE LET path == downloadCompetitionData_path(v.value.competition_id,
                                                  v.value.download_path) IN
         IF credentialsMissing(cfg)
         THEN Finished(<<"validate", "executor", "credcheck">>,
                       M_downloadCompetition_finish(v.value,
                           download_result(executeCommand_rejected, path)))
         ELSE Awaiting(<<"validate", "executor", "credcheck", "external">>, v.value,
                       ExecCall(downloadCompetitionData_command(v.value.competition_id, path),
                                300000))

M_download_competition_data_resume(args, outcome) ==
    M_downloadCompetition_finish(args,
        download_result(executeCommand_settled(outcome),
                        downloadCompetitionData_path(args.competition_id,
                                                     args.download_path)))

\* ---- cli deployment: src/unnamed/part_001 (metorial server, kaggle CLI) ----
\* The SDK hands a handler the arguments its input schema accepted.

CredentialsNotConfigured ==
    Payload([error |-> "Kaggle credentials not configured. Please set kaggleUsername and kaggleKey."])

\* `if (stderr && stderr.includes('error')) throw new Error(stderr)`
stderrHasError(stderr) == stderr # "" /\ includes(stderr, "error")

\* What a settled exec gives the code after the await: the stdout to go on
\* with, or the message of the exception the catch block sees.
C_execSettled(outcome) ==
    IF outcome.kind # "ok" THEN Threw(outcome.message)
    ELSE IF stderrHasError(outcome.stderr) THEN Threw(outcome.stderr)
    ELSE Returned(outcome.stdout)

\* search_kaggle_datasets, lines 38-127
C_search_kaggle_datasets_start(args, cfg) ==
    IF credentialsMissing(cfg) THEN Finished(<<"credcheck">>, CredentialsNotConfigured)
    ELSE Awaiting(<<"credcheck", "external">>, args,
                  ExecCall("kaggle datasets list -s \"" \o Template(args.query)
                           \o "\" --json", 60000))

C_search_kaggle_datasets_resume(args, outcome) ==
    LET r == C_execSettled(outcome) IN
    IF r.threw THEN Payload([error |-> "Error searching datasets: " \o r.error])
    ELSE IF trim(r.value.text) = ""
    THEN Payload([message |-> "No datasets found matching the query.", results |-> <<>>])
    ELSE IF ~r.value.json.ok
    THEN Payload([error |-> "Error searching datasets: " \o r.value.json.error])
    ELSE IF ~r.value.json.isArray
    THEN Payload([error |-> "Error searching datasets: datasets.slice is not a function"])
    ELSE LET limitedResults == map(slice0(r.value.json.items, ResultCap), normalizeDataset)
         IN  Payload([message |-> "Found " \o ToString(Len(limitedResults)) \o " datasets",
                      results |-> limitedResults])

\* download_kaggle_dataset, lines 146-226
C_downloadDataset_path(args) ==
    Template(OrElse(args.download_path,
                    Str("./datasets/" \o Template(splitSlashSecond(Template(args.dataset_ref))))))

C_download_kaggle_dataset_start(args, cfg) ==
    IF credentialsMissing(cfg) THEN Finished(<<"credcheck">>, CredentialsNotConfigured)
    ELSE Awaiting(<<"credcheck", "external">>, args,
                  ExecCall("kaggle datasets download " \o Template(args.dataset_ref)
                           \o " -p " \o C_downloadDataset_path(args) \o " --unzip", 300000))

C_download_kaggle_dataset_resume(args, outcome) ==
    IF outcome.kind = "ok"
    THEN Payload([success |-> TRUE,
                  message |-> "Successfully downloaded dataset '"
                              \o Template(args.dataset_ref) \o "'",
                  dataset_ref |-> Template(args.dataset_ref),
                  download_path |-> C_downloadDataset_path(args),
                  stdout |-> outcome.stdout.text,
                  stderr |-> outcome.stderr])
    ELSE IF includes(outcome.message, "404")
    THEN Payload([error |-> "Dataset '" \o Template(args.dataset_ref)
                            \o "' not found or access denied."])
    ELSE Payload([error |-> "Error downloading dataset: " \o outcome.message])

\* search_kaggle_competitions, lines 243-337
C_normalizeCompetition(comp) ==
    [ref |-> OrElse(comp.ref, Str("N/A")),
     title |-> OrElse(comp.title, Str("N/A")),
     description |-> Str(substring0(OrElse(comp.description, Str("N/A")).v, 200) \o "..."),
     url |-> Str("https://www.kaggle.com/competitions/"
                 \o Template(OrElse(comp.ref, Str("")))),
     deadline |-> OrElse(comp.deadline, Str("N/A")),
     category |-> OrElse(comp.category, Str("N/A")),
     reward |-> OrElse(comp.reward, Str("N/A")),
     teamCount |-> OrElse(comp.teamCount, Num(0))]

C_search_kaggle_competitions_start(args, cfg) ==
    IF credentialsMissing(cfg) THEN Finished(<<"credcheck">>, CredentialsNotConfigured)
    ELSE Awaiting(<<"credcheck", "external">>, args,
                  ExecCall(IF ~Falsy(args.query) /\ trim(args.query.v) # ""
                           THEN "kaggle competitions list -s \"" \o Template(args.query)
                                \o "\" --json"
                           ELSE "kaggle competitions list --json", 60000))

C_search_kaggle_competitions_resume(args, outcome) ==
    LET r == C_execSettled(outcome) IN
    IF r.threw THEN Payload([error |-> "Error searching competitions: " \o r.error])
    ELSE IF trim(r.value.text) = ""
    THEN Payload([message |-> "No competitions found matching the query.",
                  results |-> <<>>])
    ELSE IF ~r.value.json.ok
    THEN Payload([error |-> "Error searching competitions: " \o r.value.json.error])
    ELSE IF ~r.value.json.isArray
    THEN Payload([error |-> "Error searching competitions: competitions.slice is not a function"])
    ELSE LET limitedResults ==
                 map(slice0(r.value.json.items, ResultCap), C_normalizeCompetition)
         IN  Payload([message |-> "Found " \o ToString(Len(limitedResults))
                                  \o " competitions",
                      results |-> limitedResults])

\* get_competition_details, lines 353-460
C_competitionNotFound(id) ==
    Payload([error |-> "Competition '" \o Template(id) \o "' not found"])

\* comp.ref === competition_id || comp.ref?.includes(competition_id)
C_refMatches(comp, id) ==
    IsString(comp.ref) /\ (comp.ref = id \/ includes(comp.ref.v, Template(id)))

\* competitions.find(...) || competitions[0]
C_findCompetition(competitions, id) ==
    IF \E i \in 1..Len(competitions) : C_refMatches(competitions[i], id)
    THEN LET i == CHOOSE i \in 1..Len(competitions) :
                    /\ C_refMatches(competitions[i], id)
                    /\ \A j \in 1..(i - 1) : ~C_refMatches(competitions[j], id)
         IN  <<competitions[i]>>
    ELSE IF Len(competitions) > 0 THEN <<competitions[1]>>
    ELSE <<>>

C_competitionDetails(competition, id) ==
    [id |-> Template(id),
     title |-> OrElse(competition.title, Str("N/A")),
     description |-> OrElse(competition.description, Str("N/A")),
     evaluation_metric |-> OrElse(competition.evaluationMetric, Str("N/A")),
     deadline |-> OrElse(competition.deadline, Str("N/A")),
     category |-> OrElse(competition.category, Str("N/A")),
     reward |-> OrElse(competition.reward, Str("N/A")),
     team_count |-> OrElse(competition.teamCount, Num(0)),
     user_has_entered |-> OrElse(competition.userHasEntered, Bool(FALSE)),
     url |-> "https://www.kaggle.com/competitions/" \o Template(id)]

C_get_competition_details_start(args, cfg) ==
    IF credentialsMissing(cfg) THEN Finished(<<"credcheck">>, CredentialsNotConfigured)
    ELSE Awaiting(<<"credcheck", "external">>, args,
                  ExecCall("kaggle competitions list -s \""
                           \o Template(args.competition_id) \o "\" --json", 60000))

C_get_competition_details_resume(args, outcome) ==
    LET r == C_execSettled(outcome) IN
    IF r.threw THEN Payload([error |-> "Error getting competition details: " \o r.error])
    ELSE IF trim(r.value.text) = "" THEN C_competitionNotFound(args.competition_id)
    ELSE IF ~r.value.json.ok
    THEN Payload([error |-> "Error getting competition details: " \o r.value.json.error])
    ELSE IF ~r.value.json.isArray
    THEN Payload([error |-> "Error getting competition details: competitions.find is not a function"])
    ELSE LET found == C_findCompetition(r.value.json.items, args.competition_id) IN
         IF found = <<>> THEN C_competitionNotFound(args.competition_id)
         ELSE Payload(C_competitionDetails(found[1], args.competition_id))

RECURSIVE splitLines(_)
\* s.split('\n')
splitLines(s) ==
    IF ~includes(s, "\n") THEN <<s>>
    ELSE LET i == CHOOSE i \in 1..Len(s) :
                    /\ SubSeq(s, i, i) = "\n"
                    /\ \A j \in 1..(i - 1) : SubSeq(s, j, j) # "\n"
         IN  <<SubSeq(s, 1, i - 1)>> \o splitLines(SubSeq(s, i + 1, Len(s)))

\* listOutput.trim().split('\n').filter(f => f.trim())
C_fileList(listOutput) == SelectSeq(splitLines(trim(listOutput)), LAMBDA f : trim(f) # "")

\* download_competition_data, lines 477-573
C_downloadCompetition_path(args) ==
    Template(OrElse(args.download_path,
                    Str("./competitions/" \o Template(args.competition_id))))

C_download_competition_data_start(args, cfg) ==
    IF credentialsMissing(cfg) THEN Finished(<<"credcheck">>, CredentialsNotConfigured)
    ELSE Awaiting(<<"credcheck", "external">>,
                  [a |-> args, stdout |-> "", stderr |-> ""],
                  ExecCall("kaggle competitions download " \o Template(args.competition_id)
                           \o " -p " \o C_downloadCompetition_path(args), 300000))

C_download_competition_data_resume(st, stage, outcome) ==
    IF stage = 1
    THEN IF outcome.kind = "ok"
         THEN Awaiting(<<"external">>,
                       [a |-> st.a, stdout |-> outcome.stdout.text,
                        stderr |-> outcome.stderr],
                       Call("exec",
                            "find " \o C_downloadCompetition_path(st.a)
                            \o " -type f -name \"*.csv\" -o -name \"*.zip\" -o -name \"*.txt\" | head -20",
                            10000, 2, ""))
         ELSE IF includes(outcome.message, "403") \/ includes(outcome.message, "Forbidden")
         THEN Finished(<<>>, Payload(
                [error |-> "Access denied for competition '" \o Template(st.a.competition_id)
                           \o "'. You may need to accept the competition rules first.",
                 solutions |-> <<"Go to https://www.kaggle.com/competitions/"
                                 \o Template(st.a.competition_id)
                                 \o " and accept the competition rules",
                                 "Join the competition first before downloading data",
                                 "Use an accessible competition like 'titanic' instead">>]))
         ELSE Finished(<<>>, Payload(
                [error |-> "Error downloading competition data: " \o outcome.message]))
    ELSE LET fileList == IF outcome.kind = "ok" THEN C_fileList(outcome.stdout.text)
                         ELSE <<>>
         IN  Finished(<<>>, Payload(
                [success |-> TRUE,
                 competition_id |-> Template(st.a.competition_id),
                 download_path |-> C_downloadCompetition_path(st.a),
                 downloaded_files |-> fileList,
                 file_count |-> Len(fileList),
                 stdout |-> st.stdout,
                 stderr |-> st.stderr]))

\* submit_to_competition, lines 592-674
C_tempDir == "./temp_submissions"
C_tempFilePath(args) == C_tempDir \o "/" \o Template(args.filename)
C_submissionMessage(args) ==
    Template(OrElse(args.message, Str("Submission via ML Engineer Agent")))

C_submitError(message) ==
    Finished(<<>>, Payload([error |-> "Error submitting to competition: " \o message]))

C_submit_to_competition_start(args, cfg) ==
    IF credentialsMissing(cfg) THEN Finished(<<"credcheck">>, CredentialsNotConfigured)
    ELSE Awaiting(<<"credcheck">>, [a |-> args, stdout |-> "", stderr |-> ""],
                  Call("mkdir", C_tempDir, 0, 1, ""))

C_submit_to_competition_resume(st, stage, outcome) ==
    CASE stage = 1 ->
            IF outcome.kind # "ok" THEN C_submitError(outcome.message)
            ELSE Awaiting(<<>>, st,
                          Call("writeFile", C_tempFilePath(st.a), 0, 2,
                               Template(st.a.file_content)))
      [] stage = 2 ->
            IF outcome.kind # "ok" THEN C_submitError(outcome.message)
            ELSE Awaiting(<<"external">>, st,
                          Call("exec",
                               "kaggle competitions submit " \o Template(st.a.competition_id)
                               \o " -f " \o C_tempFilePath(st.a)
                               \o " -m \"" \o C_submissionMessage(st.a) \o "\"",
                               120000, 3, ""))
      [] stage = 3 ->
            IF outcome.kind # "ok" THEN C_submitError(outcome.message)
            ELSE Awaiting(<<>>,
                          [a |-> st.a, stdout |-> outcome.stdout.text,
                           stderr |-> outcome.stderr],
                          Call("unlink", C_tempFilePath(st.a), 0, 4, ""))
      [] OTHER ->
            Finished(<<>>, Payload(
                [success |-> TRUE,
                 competition_id |-> Template(st.a.competition_id),
                 submission_file |-> Template(st.a.filename),
                 message |-> C_submissionMessage(st.a),
                 stdout |-> st.stdout,
                 stderr |-> st.stderr]))

\* ---- rest deployment: src/server.ts (metorial server, Kaggle REST API) ----

KAGGLE_API_BASE == "https://www.kaggle.com/api/v1"

\* No fetch of this deployment sets a timeout or an abort signal.
FetchCall(endpoint, stage) == Call("fetch", KAGGLE_API_BASE \o endpoint, 0, stage, "")

\* response.ok
responseOk(outcome) == outcome.status >= 200 /\ outcome.status <= 299

\* kaggleApiRequest, lines 20-33: the parsed body, or the exception thrown
kaggleApiRequest_settled(outcome) ==
    IF outcome.kind = "reject" THEN Threw(outcome.message)
    ELSE IF ~responseOk(outcome)
    THEN Threw("Kaggle API error: " \o ToString(outcome.status) \o " " \o outcome.statusText)
    ELSE IF ~outcome.stdout.json.ok THEN Threw(outcome.stdout.json.error)
    ELSE Returned(outcome.stdout.json)

R_normalizeDataset(ds) ==
    [ref |-> OrElse(ds.ref, Str("N/A")),
     title |-> OrElse(ds.title, Str("N/A")),
     subtitle |-> OrElse(ds.subtitle, Str("N/A")),
     downloadCount |-> OrElse(ds.downloadCount, Num(0)),
     lastUpdated |-> OrElse(ds.lastUpdated, Str("N/A")),
     usabilityRating |-> OrElse(ds.usabilityRating, Str("N/A")),
     url |-> Str("https://www.kaggle.com/datasets/" \o Template(ds.ref))]

\* search_kaggle_datasets, lines 61-124 (the query is put into the URL as
\* it is: URLSearchParams' percent-encoding is not modelled)
R_search_kaggle_datasets_start(args, cfg) ==
    IF credentialsMissing(cfg) THEN Finished(<<"credcheck">>, CredentialsNotConfigured)
    ELSE Awaiting(<<"credcheck", "external">>, args,
                  FetchCall("/datasets/list?search=" \o Template(args.query)
                            \o "&sortBy=hottest&size=all&filetype=all&license=all", 1))

R_search_kaggle_datasets_resume(args, outcome) ==
    LET r == kaggleApiRequest_settled(outcome) IN
    IF r.threw THEN Payload([error |-> "Error searching datasets: " \o r.error])
    ELSE IF ~r.value.isArray
    THEN Payload([error |-> "Error searching datasets: datasets.slice is not a function"])
    ELSE LET limitedResults == map(slice0(r.value.items, ResultCap), R_normalizeDataset)
         IN  Payload([message |-> "Found " \o ToString(Len(limitedResults)) \o " datasets",
                      results |-> limitedResults])

\* download_kaggle_dataset, lines 142-216
\* const [owner, datasetName] = dataset_ref.split('/'), put back as
\* `${owner}/${datasetName}`
R_datasetPath(ref) ==
    Template(splitSlashFirst(Template(ref))) \o "/"
    \o Template(splitSlashSecond(Template(ref)))

R_downloadDataset_catch(args, message) ==
    IF includes(message, "404")
    THEN Payload([error |-> "Dataset '" \o Template(args.dataset_ref)
                            \o "' not found or access denied."])
    ELSE Payload([error |-> "Error getting dataset info: " \o message])

R_fileInfo(file) ==
    [name |-> file.name, size |-> file.totalBytes, creationDate |-> file.creationDate]

R_download_kaggle_dataset_start(args, cfg) ==
    IF credentialsMissing(cfg) THEN Finished(<<"credcheck">>, CredentialsNotConfigured)
    ELSE Awaiting(<<"credcheck", "external">>, [a |-> args, info |-> JsonOther],
                  FetchCall("/datasets/view/" \o R_datasetPath(args.dataset_ref), 1))

\* A plausible slip: the dataset request is issued a second time when it
\* failed.
R_download_kaggle_dataset_resume_retry(st, stage, outcome) ==
    LET r == kaggleApiRequest_settled(outcome) IN
    IF r.threw /\ stage = 1
    THEN Awaiting(<<"external">>, st,
                  FetchCall("/datasets/view/" \o R_datasetPath(st.a.dataset_ref), 2))
    ELSE IF r.threw THEN Finished(<<>>, R_downloadDataset_catch(st.a, r.error))
    ELSE Finished(<<>>, Payload([success |-> TRUE]))

R_download_kaggle_dataset_resume(st, stage, outcome) ==
    LET r == kaggleApiRequest_settled(outcome) IN
    IF r.threw THEN Finished(<<>>, R_downloadDataset_catch(st.a, r.error))
    ELSE IF stage = 1
    THEN Awaiting(<<"external">>, [a |-> st.a, info |-> r.value],
                  FetchCall("/datasets/list/" \o R_datasetPath(st.a.dataset_ref)
                            \o "/files", 2))
    ELSE IF ~r.value.isArray
    THEN Finished(<<>>, R_downloadDataset_catch(st.a, "files.map is not a function"))
    ELSE Finished(<<>>, Payload(
            [success |-> TRUE,
             message |-> "Dataset information retrieved for '"
                         \o Template(st.a.dataset_ref) \o "'",
             dataset_ref |-> Template(st.a.dataset_ref),
             title |-> Field(st.info, "title"),
             description |-> Field(st.info, "description"),
             downloadCount |-> Field(st.info, "downloadCount"),
             files |-> map(r.value.items, R_fileInfo),
             downloadUrl |-> "https://www.kaggle.com/datasets/"
                             \o Template(st.a.dataset_ref) \o "/download",
             note |-> "Use the downloadUrl to download files directly"]))

\* new Date(x): a time (here: the year), or an invalid date.  The dates
\* that parse are those of DateTable; new Date(null) is the epoch.
DateTable == <<[text |-> "2020-06-30", time |-> 2020],
               [text |-> "2031-12-31", time |-> 2031]>>
InvalidDate == [valid |-> FALSE, time |-> 0]
newDate(x) ==
    IF IsString(x) /\ \E k \in 1..Len(DateTable) : DateTable[k].text = x.v
    THEN [valid |-> TRUE,
          time |-> DateTable[CHOOSE k \in 1..Len(DateTable) : DateTable[k].text = x.v].time]
    ELSE IF x.t = "null" THEN [valid |-> TRUE, time |-> 1970]
    ELSE InvalidDate
\* new Date(): the time of the request
Now == [valid |-> TRUE, time |-> 2026]
\* a > b and a <= b on dates (both false when one is invalid)
dateGreater(a, b) == a.valid /\ b.valid /\ a.time > b.time
dateLessEq(a, b) == a.valid /\ b.valid /\ a.time <= b.time

\* search_kaggle_competitions, lines 233-313
R_normalizeCompetition(comp) ==
    [ref |-> OrElse(comp.ref, Str("N/A")),
     title |-> OrElse(comp.title, Str("N/A")),
     description |-> Str(substring0(OrElse(comp.description, Str("N/A")).v, 200) \o "..."),
     url |-> Str("https://www.kaggle.com/competitions/"
                 \o Template(OrElse(comp.ref, Str("")))),
     deadline |-> OrElse(comp.deadline, Str("N/A")),
     category |-> OrElse(comp.category, Str("N/A")),
     reward |-> OrElse(comp.reward, Str("N/A")),
     teamCount |-> OrElse(comp.teamCount, Num(0)),
     evaluationMetric |-> OrElse(comp.evaluationMetric, Str("N/A"))]

\* lines 262-274: the status filter
R_statusKeeps(status, comp) ==
    IF status = Str("active") THEN dateGreater(newDate(comp.deadline), Now)
    ELSE IF status = Str("completed") THEN dateLessEq(newDate(comp.deadline), Now)
    ELSE TRUE

R_filterByStatus(status, competitions) ==
    IF ~Falsy(status) /\ status # Str("all")
    THEN SelectSeq(competitions, LAMBDA comp : R_statusKeeps(status, comp))
    ELSE competitions

R_search_kaggle_competitions_start(args, cfg) ==
    IF credentialsMissing(cfg) THEN Finished(<<"credcheck">>, CredentialsNotConfigured)
    ELSE Awaiting(<<"credcheck", "external">>, args,
                  FetchCall("/competitions/list?sortBy=latestDeadline"
                            \o (IF ~Falsy(args.query) /\ trim(args.query.v) # ""
                                THEN "&search=" \o Template(args.query) ELSE ""), 1))

R_search_kaggle_competitions_resume(args, outcome) ==
    LET r == kaggleApiRequest_settled(outcome) IN
    IF r.threw THEN Payload([error |-> "Error searching competitions: " \o r.error])
    ELSE IF ~r.value.isArray
    THEN Payload([error |-> IF ~Falsy(args.status) /\ args.status # Str("all")
                            THEN "Error searching competitions: competitions.filter is not a function"
                            ELSE "Error searching competitions: filteredCompetitions.slice is not a function"])
    ELSE LET limitedResults ==
                 map(slice0(R_filterByStatus(args.status, r.value.items), ResultCap),
                     R_normalizeCompetition)
         IN  Payload([message |-> "Found " \o ToString(Len(limitedResults))
                                  \o " competitions",
                      results |-> limitedResults])

\* get_competition_details, lines 329-400
R_get_competition_details_start(args, cfg) ==
    IF credentialsMissing(cfg) THEN Finished(<<"credcheck">>, CredentialsNotConfigured)
    ELSE Awaiting(<<"credcheck", "external">>, args,
                  FetchCall("/competitions/" \o Template(args.competition_id), 1))

R_get_competition_details_resume(args, outcome) ==
    LET r == kaggleApiRequest_settled(outcome) IN
    IF r.threw
    THEN IF includes(r.error, "404")
         THEN Payload([error |-> "Competition '" \o Template(args.competition_id)
                                 \o "' not found"])
         ELSE Payload([error |-> "Error getting competition details: " \o r.error])
    ELSE Payload(
            [id |-> Template(args.competition_id),
             title |-> OrElse(Field(r.value, "title"), Str("N/A")),
             description |-> OrElse(Field(r.value, "description"), Str("N/A")),
             evaluation_metric |-> OrElse(Field(r.value, "evaluationMetric"), Str("N/A")),
             deadline |-> OrElse(Field(r.value, "deadline"), Str("N/A")),
             category |-> OrElse(Field(r.value, "category"), Str("N/A")),
             reward |-> OrElse(Field(r.value, "reward"), Str("N/A")),
             team_count |-> OrElse(Field(r.value, "teamCount"), Num(0)),
             user_has_entered |-> OrElse(Field(r.value, "userHasEntered"), Bool(FALSE)),
             url |-> "https://www.kaggle.com/competitions/" \o Template(args.competition_id),
             tags |-> OrElse(Field(r.value, "tags"), Arr(<<>>)),
             organizationName |-> OrElse(Field(r.value, "organizationName"), Str("N/A")),
             organizationDescription |->
                 OrElse(Field(r.value, "organizationDescription"), Str("N/A"))])

\* download_competition_data, lines 417-506
R_dataFileInfo(file) ==
    [name |-> file.name, size |-> file.totalBytes, creationDate |-> file.creationDate,
     description |-> OrElse(file.description, Str("N/A")), url |-> file.url]

R_download_competition_data_start(args, cfg) ==
    IF credentialsMissing(cfg) THEN Finished(<<"credcheck">>, CredentialsNotConfigured)
    ELSE Awaiting(<<"credcheck", "external">>, args,
                  FetchCall("/competitions/data/list/" \o Template(args.competition_id), 1))

R_downloadCompetition_catch(args, message) ==
    IF includes(message, "403") \/ includes(message, "Forbidden")
    THEN Payload(
            [error |-> "Access denied for competition '" \o Template(args.competition_id)
                       \o "'. You may need to accept the competition rules first.",
             solutions |-> <<"Go to https://www.kaggle.com/competitions/"
                             \o Template(args.competition_id)
                             \o " and accept the competition rules",
                             "Join the competition first before accessing data",
                             "Use an accessible competition like 'titanic' instead">>])
    ELSE IF includes(message, "404")
    THEN Payload([error |-> "Competition '" \o Template(args.competition_id)
                            \o "' not found or has no data files"])
    ELSE Payload([error |-> "Error getting competition data files: " \o message])

R_download_competition_data_resume(args, outcome) ==
    LET r == kaggleApiRequest_settled(outcome) IN
    IF r.threw THEN R_downloadCompetition_catch(args, r.error)
    ELSE IF ~r.value.isArray
    THEN R_downloadCompetition_catch(args, "files.map is not a function")
    ELSE LET fileInfo == map(r.value.items, R_dataFileInfo) IN
         Payload([success |-> TRUE,
                  competition_id |-> Template(args.competition_id),
                  files |-> fileInfo,
                  file_count |-> Len(fileInfo),
                  downloadUrl |-> "https://www.kaggle.com/competitions/"
                                  \o Template(args.competition_id) \o "/data",
                  note |-> "Use the Kaggle website or API to download actual files"])

\* submit_to_competition, lines 525-616: the file content travels in the
\* multipart body of the request, no temporary file is written
R_submit_to_competition_start(args, cfg) ==
    IF credentialsMissing(cfg) THEN Finished(<<"credcheck">>, CredentialsNotConfigured)
    ELSE Awaiting(<<"credcheck", "external">>, args,
                  Call("fetch",
                       KAGGLE_API_BASE \o "/competitions/submissions/submit/"
                       \o Template(args.competition_id),
                       0, 1, Template(args.file_content)))

R_submit_settled(outcome) ==
    IF outcome.kind = "reject" THEN Threw(outcome.message)
    ELSE IF ~responseOk(outcome)
    THEN Threw("Submission failed: " \o ToString(outcome.status) \o " " \o outcome.statusText)
    ELSE IF ~outcome.stdout.json.ok THEN Threw(outcome.stdout.json.error)
    ELSE Returned(outcome.stdout.json)

R_submit_to_competition_resume(args, outcome) ==
    LET r == R_submit_settled(outcome) IN
    IF r.threw
    THEN IF includes(r.error, "403")
         THEN Payload(
                [error |-> "Access denied for competition '" \o Template(args.competition_id)
                           \o "'. You may need to join the competition first.",
                 solutions |-> <<"Go to https://www.kaggle.com/competitions/"
                                 \o Template(args.competition_id)
                                 \o " and join the competition",
                                 "Accept the competition rules before submitting",
                                 "Ensure you have submission permissions">>])
         ELSE Payload([error |-> "Error submitting to competition: " \o r.error])
    ELSE Payload(
            [success |-> TRUE,
             competition_id |-> Template(args.competition_id),
             submission_file |-> Template(args.filename),
             message |-> Template(OrElse(args.message,
                                         Str("Submission via ML Engineer Agent"))),
             submission_id |-> OrElse(Field(r.value, "submissionId"), Str("N/A")),
             status |-> OrElse(Field(r.value, "status"), Str("submitted")),
             url |-> "https://www.kaggle.com/competitions/"
                     \o Template(args.competition_id) \o "/submissions"])

(***************************************************************************)
(* The tools of each deployment and the dispatch to their handlers         *)
(***************************************************************************)

Variants == {"modular", "standalone", "cli", "rest"}

\* src/src/server.ts, line 71: allTools = [...datasetTools, ...competitionTools]
M_allTools ==
    <<"search_kaggle_datasets", "download_kaggle_dataset",
      "search_kaggle_competitions", "download_competition_data">>

\* the server.registerTool calls of part_001 and of src/server.ts, in order
MetorialTools ==
    <<"search_kaggle_datasets", "download_kaggle_dataset",
      "search_kaggle_competitions", "get_competition_details",
      "download_competition_data", "submit_to_competition">>

\* part_007, lines 540-578, registers a route for the same four names
ToolsOf(v) == IF v \in {"modular", "standalone"} THEN M_allTools ELSE MetorialTools

Range(seq) == { seq[i] : i \in 1..Len(seq) }

\* The handler of `tool` up to its first await
StartStep(v, tool, input, cfg) ==
    CASE v \in {"modular", "standalone"} /\ tool = "search_kaggle_datasets" ->
            M_search_kaggle_datasets_start(input, cfg)
      [] v \in {"modular", "standalone"} /\ tool = "download_kaggle_dataset" ->
            M_download_kaggle_dataset_start(input, cfg)
      [] v \in {"modular", "standalone"} /\ tool = "search_kaggle_competitions" ->
            M_search_kaggle_competitions_start(input, cfg)
      [] v \in {"modular", "standalone"} /\ tool = "download_competition_data" ->
            M_download_competition_data_start(input, cfg)
      [] v = "cli" /\ tool = "search_kaggle_datasets" ->
            C_search_kaggle_datasets_start(input, cfg)
      [] v = "cli" /\ tool = "download_kaggle_dataset" ->
            C_download_kaggle_dataset_start(input, cfg)
      [] v = "cli" /\ tool = "search_kaggle_competitions" ->
            C_search_kaggle_competitions_start(input, cfg)
      [] v = "cli" /\ tool = "get_competition_details" ->
            C_get_competition_details_start(input, cfg)
      [] v = "cli" /\ tool = "download_competition_data" ->
            C_download_competition_data_start(input, cfg)
      [] v = "cli" /\ tool = "submit_to_competition" ->
            C_submit_to_competition_start(input, cfg)
      [] v = "rest" /\ tool = "search_kaggle_datasets" ->
            R_search_kaggle_datasets_start(input, cfg)
      [] v = "rest" /\ tool = "download_kaggle_dataset" ->
            R_download_kaggle_dataset_start(input, cfg)
      [] v = "rest" /\ tool = "search_kaggle_competitions" ->
            R_search_kaggle_competitions_start(input, cfg)
      [] v = "rest" /\ tool = "get_competition_details" ->
            R_get_competition_details_start(input, cfg)
      [] v = "rest" /\ tool = "download_competition_data" ->
            R_download_competition_data_start(input, cfg)
      [] v = "rest" /\ tool = "submit_to_competition" ->
            R_submit_to_competition_start(input, cfg)

\* The handler of `tool` from the await numbered `stage` on, the awaited
\* operation having settled with `outcome`
ResumeStep(v, tool, args, stage, outcome) ==
    CASE v \in {"modular", "standalone"} /\ tool = "search_kaggle_datasets" ->
            Finished(<<>>, M_search_kaggle_datasets_resume(args, outcome))
      [] v \in {"modular", "standalone"} /\ tool = "download_kaggle_dataset" ->
            Finished(<<>>, M_download_kaggle_dataset_resume(args, outcome))
      [] v \in {"modular", "standalone"} /\ tool = "search_kaggle_competitions" ->
            Finished(<<>>, M_search_kaggle_competitions_resume(args, outcome))
      [] v \in {"modular", "standalone"} /\ tool = "download_competition_data" ->
            Finished(<<>>, M_download_competition_data_resume(args, outcome))
      [] v = "cli" /\ tool = "search_kaggle_datasets" ->
            Finished(<<>>, C_search_kaggle_datasets_resume(args, outcome))
      [] v = "cli" /\ tool = "download_kaggle_dataset" ->
            Finished(<<>>, C_download_kaggle_dataset_resume(args, outcome))
      [] v = "cli" /\ tool = "search_kaggle_competitions" ->
            Finished(<<>>, C_search_kaggle_competitions_resume(args, outcome))
      [] v = "cli" /\ tool = "get_competition_details" ->
            Finished(<<>>, C_get_competition_details_resume(args, outcome))
      [] v = "cli" /\ tool = "download_competition_data" ->
            C_download_competition_data_resume(args, stage, outcome)
      [] v = "cli" /\ tool = "submit_to_competition" ->
            C_submit_to_competition_resume(args, stage, outcome)
      [] v = "rest" /\ tool = "search_kaggle_datasets" ->
            Finished(<<>>, R_search_kaggle_datasets_resume(args, outcome))
      [] v = "rest" /\ tool = "download_kaggle_dataset" ->
            R_download_kaggle_dataset_resume(args, stage, outcome)
      [] v = "rest" /\ tool = "search_kaggle_competitions" ->
            Finished(<<>>, R_search_kaggle_competitions_resume(args, outcome))
      [] v = "rest" /\ tool = "get_competition_details" ->
            Finished(<<>>, R_get_competition_details_resume(args, outcome))
      [] v = "rest" /\ tool = "download_competition_data" ->
            Finished(<<>>, R_download_competition_data_resume(args, outcome))
      [] v = "rest" /\ tool = "submit_to_competition" ->
            Finished(<<>>, R_submit_to_competition_resume(args, outcome))

\* What the caller of an invocation gets
NoResponse == [kind |-> "none", body |-> <<>>, error |-> "", classified |-> FALSE]
PayloadResponse(body, classified) ==
    [kind |-> "payload", body |-> body, error |-> "", classified |-> classified]
ThrownResponse(m) ==
    [kind |-> "thrown", body |-> <<>>, error |-> m, classified |-> FALSE]

\* src/src/server.ts, lines 77-98: the try/catch around tool.handler.  A
\* handler that throws is answered through handleApiError.  The routes of
\* part_007 (lines 540-578) answer it with the raw message (its own
\* handleApiError, lines 340-349); in the metorial deployments the
\* handlers' own catch blocks build every payload.
Respond(v, ret) ==
    IF ret.threw /\ v = "modular"
    THEN PayloadResponse(handleApiError(ret.error).body, TRUE)
    ELSE IF ret.threw /\ v = "standalone"
    THEN PayloadResponse([error |-> ret.error], FALSE)
    ELSE IF ret.threw THEN ThrownResponse(ret.error)
    ELSE PayloadResponse(ret.body, FALSE)

\* A plausible slip: the unknown name is answered inside the try block, and
\* so through the classifier.
UnknownToolAnswer_classified(name) ==
    PayloadResponse(handleApiError("Unknown tool: " \o name).body, TRUE)

\* src/src/server.ts, line 101: throw new Error(`Unknown tool: ${name}`)
UnknownToolAnswer(name) == ThrownResponse("Unknown tool: " \o name)

\* src/src/server.ts, lines 74-76: every setRequestHandler call of the loop
\* is for the same request schema, and the server keeps one handler per
\* schema: the handler in force is the closure over the tool registered
\* last, and it serves that one name.  The Express routes and the metorial
\* SDK look the name up among the registered ones.
Dispatches(v, boundTool, names, name) ==
    IF v = "modular" THEN name = boundTool ELSE name \in names

\* The input schema each tool of allTools is made with (dataset.tools.ts,
\* lines 15 and 46; competition.tools.ts, lines 15 and 46)
M_inputSchema(name) ==
    CASE name = "search_kaggle_datasets" -> "DatasetSearchSchema"
      [] name = "download_kaggle_dataset" -> "DatasetDownloadSchema"
      [] name = "search_kaggle_competitions" -> "CompetitionSearchSchema"
      [] OTHER -> "CompetitionDownloadSchema"

\* The description each tool of allTools is made with (lines 14 and 45 of
\* the same files)
M_description(name) ==
    CASE name = "search_kaggle_datasets" ->
            "Search for datasets on Kaggle matching the provided query string. "
            \o "Returns a JSON list of matching datasets with details like "
            \o "reference, title, download count, and last updated date."
      [] name = "download_kaggle_dataset" ->
            "Download and unzip files for a specific Kaggle dataset. The "
            \o "dataset_ref should be in format \"username/dataset-slug\" "
            \o "(e.g., \"kaggle/titanic\"). Optionally specify a download path."
      [] name = "search_kaggle_competitions" ->
            "Search for competitions on Kaggle matching the provided query string. "
            \o "Returns a JSON list of matching competitions with details like "
            \o "title, deadline, reward, and team count."
      [] OTHER ->
            "Download all competition files including datasets, sample "
            \o "submissions, and descriptions. The competition_id should be the "
            \o "competition identifier (e.g., \"titanic\"). Optionally specify a "
            \o "download path."

\* The description of each entry of GET /tools (part_007, lines 584-606)
S_description(name) ==
    CASE name = "search_kaggle_datasets" ->
            "Search for datasets on Kaggle matching the provided query string."
      [] name = "download_kaggle_dataset" ->
            "Download and unzip files for a specific Kaggle dataset."
      [] name = "search_kaggle_competitions" ->
            "Search for competitions on Kaggle matching the provided query string."
      [] OTHER -> "Download all competition files including datasets and descriptions."

\* The answer to list tools.  src/src/server.ts, lines 105-114, maps
\* allTools to {name, description, inputSchema}; GET /tools of part_007,
\* lines 581-610, answers a literal list of {name, description, endpoint,
\* method}.  The metorial SDK answers for the other two deployments.
ListTools(v) ==
    IF v = "modular"
    THEN [i \in 1..Len(M_allTools) |->
            [name |-> M_allTools[i],
             description |-> M_description(M_allTools[i]),
             inputSchema |-> M_inputSchema(M_allTools[i])]]
    ELSE [i \in 1..Len(M_allTools) |->
            [name |-> M_allTools[i],
             description |-> S_description(M_allTools[i]),
             endpoint |-> "/tools/" \o M_allTools[i],
             method |-> "POST"]]

(***************************************************************************)
(* The environment: credentials, request inputs, upstream results          *)
(***************************************************************************)

\* Longest upstream result list.
MaxUpstream == 11

Configs == { [username |-> u, key |-> k] : u \in {"", "alice"}, k \in {"", "s3cret"} }

\* An upstream dataset entry: complete (shape 1), with fields missing,
\* empty or zero depending on its position (shape 2), or with null fields
\* (shape 3)
DatasetEntry(i, shape) ==
    LET full == [ref |-> Str("owner/ds" \o ToString(i)),
                 title |-> Str("Dataset " \o ToString(i)),
                 subtitle |-> Str("About " \o ToString(i)),
                 downloadCount |-> Num(100 + i),
                 lastUpdated |-> Str("2024-05-" \o ToString(10 + i)),
                 usabilityRating |-> Num(i)]
    IN  IF shape = 1 THEN full
        ELSE IF shape = 3
        THEN [full EXCEPT !.title = Null, !.downloadCount = Null,
                          !.usabilityRating = Null]
        ELSE IF i % 3 = 1
        THEN [full EXCEPT !.title = Undef, !.downloadCount = Undef]
        ELSE IF i % 3 = 2
        THEN [full EXCEPT !.ref = Str(""), !.subtitle = Undef, !.usabilityRating = Num(0)]
        ELSE [full EXCEPT !.lastUpdated = Undef, !.downloadCount = Num(0)]

DatasetList(n, shape) == [i \in 1..n |-> DatasetEntry(i, shape)]

\* An upstream competition entry; the descriptions are shorter than, as long
\* as and longer than 200 characters, empty, null or missing
CompetitionEntry(i, shape) ==
    LET full == [ref |-> Str(IF i = 2 THEN "titanic" ELSE "comp" \o ToString(i)),
                 title |-> Str("Competition " \o ToString(i)),
                 description |-> Str(IF i % 3 = 1 THEN Repeat("d", 50)
                                     ELSE IF i % 3 = 2 THEN Repeat("e", 200)
                                     ELSE Repeat("f", 201)),
                 deadline |-> Str(IF i % 2 = 1 THEN "2031-12-31" ELSE "2020-06-30"),
                 category |-> Str("Featured"),
                 reward |-> Str("$10,000"),
                 teamCount |-> Num(i),
                 userHasEntered |-> Bool(i % 2 = 0),
                 evaluationMetric |-> Str("AUC")]
    IN  IF shape = 1 THEN full
        ELSE IF shape = 3
        THEN [full EXCEPT !.description = Null, !.deadline = Null]
        ELSE IF i % 3 = 1
        THEN [full EXCEPT !.description = Undef, !.teamCount = Undef,
                          !.deadline = Str("soon")]
        ELSE IF i % 3 = 2
        THEN [full EXCEPT !.ref = Undef, !.userHasEntered = Undef, !.deadline = Undef,
                          !.description = Str("")]
        ELSE [full EXCEPT !.title = Str(""), !.reward = Undef,
                          !.evaluationMetric = Undef]

CompetitionList(n, shape) == [i \in 1..n |-> CompetitionEntry(i, shape)]

FileEntry(i) ==
    [name |-> Str("file" \o ToString(i) \o ".csv"), totalBytes |-> Num(1000 * i),
     creationDate |-> Str("2024-01-01"),
     description |-> IF i % 2 = 1 THEN Str("data") ELSE Undef,
     url |-> Str("https://www.kaggle.com/file" \o ToString(i))]

Shapes == {1, 2, 3}

\* Upstream lists of entries for a tool
UpstreamLists(tool) ==
    IF tool = "search_kaggle_datasets"
    THEN { DatasetList(n, s) : n \in 0..MaxUpstream, s \in Shapes }
    ELSE IF tool \in {"search_kaggle_competitions", "get_competition_details"}
    THEN { CompetitionList(n, s) : n \in 0..MaxUpstream, s \in Shapes }
    ELSE { [i \in 1..n |-> FileEntry(i)] : n \in 0..2 }

\* The standard outputs a command of `tool` may print on exit status 0
Stdouts(tool) ==
    IF tool \in {"search_kaggle_datasets", "search_kaggle_competitions",
                 "get_competition_details"}
    THEN { OutText(""), OutText(" \n"), OutText("Warning: no JSON here"), OutObject }
         \cup { OutArray(l) : l \in UpstreamLists(tool) }
    ELSE { OutText(""), OutText("Downloading data.zip to ./data\n") }

\* node's exec error: "Command failed: <cmd>\n<stderr>" for a non-zero exit
\* status or a kill at the timeout, the spawn error otherwise
ExecFailures(cmd) ==
    { ExecFail("Command failed: " \o cmd \o "\n" \o e, e) :
        e \in {"", "404 - Not Found", "403 - Forbidden", "401 - Unauthorized"} }
    \cup { ExecFail("spawn /bin/sh ENOENT", "") }
    \cup { ExecKilled(cmd) }

ExecOutcomes(tool, call) ==
    IF call.stage = 2
    THEN \* the file listing of download_competition_data
         { ExecOk(OutText(t), "") : t \in {"", "./c/train.csv\n./c/test.csv\n"} }
         \cup { ExecFail("Command failed: find", "find: No such file or directory") }
    ELSE { ExecOk(o, e) : o \in Stdouts(tool),
                          e \in {"", "Warning: outdated version", "error: quota"} }
         \cup ExecFailures(call.target)

\* The bodies of a 200 response for `tool`
Bodies(tool) ==
    IF tool \in {"search_kaggle_datasets", "search_kaggle_competitions",
                 "download_competition_data"}
    THEN { OutText(""), OutObject } \cup { OutArray(l) : l \in UpstreamLists(tool) }
    ELSE IF tool = "download_kaggle_dataset"
    THEN { OutText(""),
           OutFields([title |-> Str("Iris"), downloadCount |-> Num(7)]),
           OutArray([i \in 1..2 |-> FileEntry(i)]) }
    ELSE IF tool = "get_competition_details"
    THEN { OutText("<html>"), OutFields(NoFields),
           OutFields([title |-> Str("Titanic"), deadline |-> Str("2031-12-31"),
                      reward |-> Str("Knowledge"), teamCount |-> Num(0)]) }
    ELSE { OutText(""), OutFields(NoFields),
           OutFields([submissionId |-> Num(42), status |-> Str("pending")]) }

FetchOutcomes(tool) ==
    { HttpResponse(200, "OK", b) : b \in Bodies(tool) }
    \cup { HttpResponse(404, "Not Found", OutText("")),
           HttpResponse(403, "Forbidden", OutText("")),
           HttpResponse(401, "Unauthorized", OutText("")),
           HttpResponse(500, "Internal Server Error", OutText("")) }
    \cup { FetchRejected("fetch failed") }

FsOutcomes == { FsOk, FsFail("EACCES: permission denied") }

\* The ways the awaited operation `call` of `tool` may settle
Outcomes(tool, call) ==
    CASE call.op = "exec" -> ExecOutcomes(tool, call)
      [] call.op = "fetch" -> FetchOutcomes(tool)
      [] OTHER -> FsOutcomes

\* The raw arguments a caller may send to a tool of the modular deployment
\* (its handlers validate them themselves)
RawQueries == { Undef, Num(5), Str(""), Str("iris"), Str(Repeat("q", 101)) }
RawDatasetRefs ==
    { Undef, Str("alice/iris"), Str("a/b"), Str("not-a-ref"), Str("a/b/c"),
      Str("/iris"), Str("a/"), Str("al ice/404") }
RawCompetitionIds ==
    { Undef, Str("titanic"), Str(""), Str("bad id 404"), Str("a_b-1"),
      Str(Repeat("c", 51)) }
RawPaths == { Undef, Str(""), Str("/tmp/data"), Num(7) }

RawInputs(tool) ==
    {RawNull} \cup
    (CASE tool \in {"search_kaggle_datasets", "search_kaggle_competitions"} ->
            { RawObj([query |-> q]) : q \in RawQueries }
       [] tool = "download_kaggle_dataset" ->
            { RawObj([dataset_ref |-> r, download_path |-> p]) :
                r \in RawDatasetRefs, p \in RawPaths }
       [] tool = "download_competition_data" ->
            { RawObj([competition_id |-> c, download_path |-> p]) :
                c \in RawCompetitionIds, p \in RawPaths }
       [] OTHER -> { RawObj([query |-> Str("iris")]) })

\* The arguments the metorial SDK hands to a handler: those the tool's
\* input schema (part_001 and src/server.ts, the inputSchema of each
\* registerTool) accepts
ValidArgs(v, tool) ==
    CASE tool = "search_kaggle_datasets" ->
            { [query |-> q] : q \in {Str("iris"), Str("house prices")} }
      [] tool = "download_kaggle_dataset" /\ v = "cli" ->
            { [dataset_ref |-> r, download_path |-> p] :
                r \in {Str("alice/iris"), Str("a/b")}, p \in {Undef, Str(""), Str("/tmp/data")} }
      [] tool = "download_kaggle_dataset" ->
            { [dataset_ref |-> r] : r \in {Str("alice/iris"), Str("a/b")} }
      [] tool = "search_kaggle_competitions" ->
            { [query |-> q, status |-> s] :
                q \in {Str(""), Str("titanic")},
                s \in {Undef, Str("all"), Str("active"), Str("completed"),
                       Str("upcoming")} }
      [] tool = "get_competition_details" ->
            { [competition_id |-> c] :
                c \in {Str("titanic"), Str("comp1"), Str("no such one")} }
      [] tool = "download_competition_data" /\ v = "cli" ->
            { [competition_id |-> c, download_path |-> p] :
                c \in {Str("titanic"), Str("a b")}, p \in {Undef, Str(""), Str("/tmp/data")} }
      [] tool = "download_competition_data" ->
            { [competition_id |-> c] : c \in {Str("titanic"), Str("a b")} }
      [] OTHER ->
            { [competition_id |-> Str("titanic"), file_content |-> f,
               filename |-> n, message |-> m] :
                f \in {Str("id,y\n1,0\n"), Str("id,y\n1,1\n")},
                n \in {Str("submission.csv"), Str("second.csv")},
                m \in {Undef, Str("first try")} }

\* A name no tool is registered under
UnknownTool == "no_such_tool"

(***************************************************************************)
(* The server: startup, registration, and one tool invocation at a time    *)
(***************************************************************************)

NoCall == Call("none", "", 0, 0, "")
NoOutcome == [kind |-> "none", message |-> "", stdout |-> OutText(""), stderr |-> ""]

\* inv: the invocation in progress.
\*   pc      "idle" | "await" (an external operation is pending) | "done"
\*   name    the tool name the caller asked for
\*   input   the arguments the caller sent
\*   ran     the tool whose handler ran ("none" when no handler did)
\*   args    what the handler keeps across its await
\*   call    the operation awaited
\*   last    how the last awaited subprocess or HTTP request settled
\*   created the invocation has written its temporary file
\* A submission that has not been asked for yet; read is what the submit
\* subprocess has read from the temporary file
NotRead == "<not read>"
SubIdle ==
    [pc |-> "idle", st |-> <<>>, call |-> NoCall, read |-> NotRead,
     response |-> NoResponse]
NoSubmits == [i \in 1..2 |-> SubIdle]

\* ---- GET /health: src/src/server.ts, lines 34-55 (part_007, 518-537) ----

\* validateCredentials (kaggle.service.ts, lines 65-86), the command of its
\* probe
validateCredentials_command == "kaggle datasets list --page-size 1"

\* validateCredentials once executeCommand has returned `result`: every
\* failure, and anything thrown, gives false
validateCredentials_result(result) == result.success

\* The ways the probe's subprocess ends
ProbeOutcomes ==
    { ExecOk(OutText("ref,title\nowner/ds1,Dataset 1\n"), "") }
    \cup ExecFailures(validateCredentials_command)

\* A plausible slip: invalid credentials fail the health check.
healthAnswer_strict(credentialsValid) ==
    IF credentialsValid
    THEN [code |-> 200,
          body |-> [status |-> "healthy", timestamp |-> Now, version |-> "1.0.0",
                    kaggle_credentials |-> "valid"]]
    ELSE [code |-> 500,
          body |-> [status |-> "unhealthy", timestamp |-> Now,
                    error |-> "Health check failed"]]

\* res.json({...}), lines 39-45 (config.NODE_ENV is left out)
healthAnswer(credentialsValid) ==
    [code |-> 200,
     body |-> [status |-> "healthy", timestamp |-> Now, version |-> "1.0.0",
               kaggle_credentials |-> IF credentialsValid THEN "valid" ELSE "invalid"]]

\* health: pc "none" | "await" (the probe runs) | "done"; probed: the probe
\* made its external call; probeOk: that call succeeded
NoHealth ==
    [pc |-> "none", probed |-> FALSE, probeOk |-> FALSE, code |-> 0, body |-> <<>>]

Idle ==
    [pc |-> "idle", name |-> "", input |-> RawNull, ran |-> "none", args |-> <<>>,
     call |-> NoCall, last |-> NoOutcome, created |-> FALSE]

IsExternal(call) == call.op \in {"exec", "fetch"}

\* The names a caller may ask for.  Names outside the registry are drawn for
\* the MCP dispatcher of src/src/server.ts only: what Express and the
\* metorial SDK answer to them is not in this repository.
Names(v) == Range(ToolsOf(v)) \cup (IF v = "modular" THEN {UnknownTool} ELSE {})

Inputs(v, name) ==
    IF v \in {"modular", "standalone"} THEN RawInputs(name) ELSE ValidArgs(v, name)

Init ==
    /\ msg = ""
    /\ cls = NoClassification
    /\ nCalls = 0
    /\ variant \in Variants
    /\ config \in Configs
    /\ srv = "boot"
    /\ probe = "none"
    /\ toRegister = ToolsOf(variant)
    /\ callHandler = "none"
    /\ registry = {}
    /\ inv = Idle
    /\ trace = <<>>
    /\ extCalls = 0
    /\ fsTemp = {}
    /\ response = NoResponse
    /\ subs = NoSubmits
    /\ health = NoHealth

\* src/src/server.ts, lines 17-24 (part_007, lines 469-475): the process
\* exits unless both credentials are set.  The metorial deployments take
\* their config as it comes.
ValidateEnv ==
    /\ srv = "boot"
    /\ variant \in {"modular", "standalone"}
    /\ srv' = IF validateEnvironment(config) THEN "configured" ELSE "exit(1)"
    /\ UNCHANGED <<variant, config, probe, toRegister, callHandler, registry, inv,
                   trace, extCalls, fsTemp, response>>
    /\ UNCHANGED <<clsVars, subs, health>>

\* new Server(...) / express() / metorial.createServer(...)
CreateServer ==
    /\ \/ srv = "configured"
       \/ srv = "boot" /\ variant \in {"cli", "rest"}
    /\ srv' = "created"
    /\ UNCHANGED <<variant, config, probe, toRegister, callHandler, registry, inv,
                   trace, extCalls, fsTemp, response>>
    /\ UNCHANGED <<clsVars, subs, health>>

\* One iteration of allTools.forEach (src/src/server.ts, lines 74-103), one
\* app.post (part_007) or one server.registerTool (part_001, src/server.ts)
RegisterTool ==
    /\ srv = "created"
    /\ toRegister # <<>>
    /\ IF variant = "modular"
       THEN callHandler' = Head(toRegister) /\ UNCHANGED registry
       ELSE registry' = registry \cup {Head(toRegister)} /\ UNCHANGED callHandler
    /\ toRegister' = Tail(toRegister)
    /\ UNCHANGED <<variant, config, srv, probe, inv, trace, extCalls, fsTemp, response>>
    /\ UNCHANGED <<clsVars, subs, health>>

\* startServer up to the await of validateStartup (src/src/server.ts, lines
\* 116-135; part_007, lines 612-622): validateCredentials runs its probe,
\* `kaggle datasets list`.  The metorial deployments have no probe and serve
\* at once.
StartServer ==
    /\ srv = "created"
    /\ toRegister = <<>>
    /\ IF variant \in {"cli", "rest"}
       THEN srv' = "serving" /\ UNCHANGED probe
       ELSE IF credentialsMissing(config)
       THEN srv' = "serving" /\ probe' = "invalid"
       ELSE srv' = "probing" /\ UNCHANGED probe
    /\ UNCHANGED <<variant, config, toRegister, callHandler, registry, inv, trace,
                   extCalls, fsTemp, response>>
    /\ UNCHANGED <<clsVars, subs, health>>

\* A plausible slip: startup goes on only with valid credentials.
afterProbe_enforced(isValid) == IF isValid THEN "serving" ELSE "exit(1)"

\* validateStartup, lines 119-129, and startServer, lines 137-148: the
\* probe's result is logged, then app.listen and server.connect follow
afterProbe(isValid) == "serving"

\* The probe settles: its result is logged and startup goes on
ProbeSettles ==
    /\ srv = "probing"
    /\ \E outcome \in ProbeOutcomes :
         LET isValid == validateCredentials_result(executeCommand_settled(outcome)) IN
         /\ probe' = IF isValid THEN "valid" ELSE "invalid"
         /\ srv' = afterProbe(isValid)
    /\ UNCHANGED <<variant, config, toRegister, callHandler, registry, inv, trace,
                   extCalls, fsTemp, response>>
    /\ UNCHANGED <<clsVars, subs, health>>

\* The state after a handler step: the invocation is over, or awaits `call`
AfterStep(cur, step) ==
    IF step.done
    THEN [cur EXCEPT !.pc = "done", !.call = NoCall]
    ELSE [cur EXCEPT !.pc = "await", !.args = step.args, !.call = step.call]

\* A request for tool `name` arrives: the dispatcher picks the handler, which
\* runs up to its first await
CallTool ==
    /\ srv = "serving"
    /\ inv.pc = "idle"
    /\ \E name \in Names(variant) :
       \E input \in Inputs(variant, name) :
         IF Dispatches(variant, callHandler, registry, name)
         THEN LET tool == IF variant = "modular" THEN callHandler ELSE name
                  step == StartStep(variant, tool, input, config)
                  cur == [Idle EXCEPT !.name = name, !.input = input, !.ran = tool]
              IN  /\ inv' = AfterStep(cur, step)
                  /\ trace' = step.trace
                  /\ extCalls' = IF ~step.done /\ IsExternal(step.call) THEN 1 ELSE 0
                  /\ response' = IF step.done THEN Respond(variant, step.ret)
                                 ELSE NoResponse
         ELSE /\ inv' = [Idle EXCEPT !.pc = "done", !.name = name, !.input = input]
              /\ trace' = <<>>
              /\ extCalls' = 0
              /\ response' = UnknownToolAnswer(name)
    /\ UNCHANGED <<variant, config, srv, probe, toRegister, callHandler, registry,
                   fsTemp>>
    /\ UNCHANGED <<clsVars, subs, health>>

\* fs.writeFile and fs.unlink on ./temp_submissions
FsEffect(files, call, outcome) ==
    IF outcome.kind # "ok" THEN files
    ELSE IF call.op = "writeFile"
    THEN { f \in files : f.path # call.target }
         \cup { [path |-> call.target, content |-> call.content] }
    ELSE IF call.op = "unlink"
    THEN { f \in files : f.path # call.target }
    ELSE files

\* The awaited operation settles and the handler runs on, to its next await
\* or to its end
ExternalSettles ==
    /\ inv.pc = "await"
    /\ \E outcome \in Outcomes(inv.ran, inv.call) :
         LET step == ResumeStep(variant, inv.ran, inv.args, inv.call.stage, outcome)
             cur == [inv EXCEPT
                        !.last = IF IsExternal(inv.call) THEN outcome ELSE @,
                        !.created = @ \/ (inv.call.op = "writeFile"
                                          /\ outcome.kind = "ok")]
         IN  /\ inv' = AfterStep(cur, step)
             /\ trace' = trace \o step.trace
             /\ extCalls' = IF ~step.done /\ IsExternal(step.call)
                            THEN extCalls + 1 ELSE extCalls
             /\ fsTemp' = FsEffect(fsTemp, inv.call, outcome)
             /\ response' = IF step.done THEN Respond(variant, step.ret)
                            ELSE NoResponse
    /\ UNCHANGED <<variant, config, srv, probe, toRegister, callHandler, registry>>
    /\ UNCHANGED <<clsVars, subs, health>>

\* GET /health arrives: validateCredentials answers false at once without
\* credentials and runs its probe otherwise
HealthRequested ==
    /\ srv = "serving"
    /\ variant \in {"modular", "standalone"}
    /\ health.pc \in {"none", "done"}
    /\ health' =
          IF credentialsMissing(config)
          THEN LET ans == healthAnswer(FALSE) IN
               [pc |-> "done", probed |-> FALSE, probeOk |-> FALSE,
                code |-> ans.code, body |-> ans.body]
          ELSE [NoHealth EXCEPT !.pc = "await"]
    /\ UNCHANGED <<srvVars, clsVars, subs>>

\* The probe of a health request settles and the request is answered
HealthProbeSettles ==
    /\ health.pc = "await"
    /\ \E outcome \in ProbeOutcomes :
         LET ans == healthAnswer(
                       validateCredentials_result(executeCommand_settled(outcome)))
         IN  health' = [pc |-> "done", probed |-> TRUE, probeOk |-> outcome.kind = "ok",
                        code |-> ans.code, body |-> ans.body]
    /\ UNCHANGED <<srvVars, clsVars, subs>>

\* The caller has its answer; the server waits for the next request
NextRequest ==
    /\ inv.pc = "done"
    /\ inv' = Idle
    /\ trace' = <<>>
    /\ extCalls' = 0
    /\ response' = NoResponse
    /\ UNCHANGED <<variant, config, srv, probe, toRegister, callHandler, registry,
                   fsTemp>>
    /\ UNCHANGED <<clsVars, subs, health>>

Next ==
    \/ ValidateEnv
    \/ CreateServer
    \/ RegisterTool
    \/ StartServer
    \/ ProbeSettles
    \/ CallTool
    \/ ExternalSettles
    \/ NextRequest
    \/ HealthRequested
    \/ HealthProbeSettles

Spec == Init /\ [][Next]_vars

(***************************************************************************)
(* The classifier on its own: one message, classified repeatedly           *)
(***************************************************************************)

InitClassify ==
    /\ msg \in Messages
    /\ cls = NoClassification
    /\ nCalls = 0
    /\ variant = "modular"
    /\ config = [username |-> "alice", key |-> "s3cret"]
    /\ srv = "boot"
    /\ probe = "none"
    /\ toRegister = <<>>
    /\ callHandler = "none"
    /\ registry = {}
    /\ inv = Idle
    /\ trace = <<>>
    /\ extCalls = 0
    /\ fsTemp = {}
    /\ response = NoResponse
    /\ subs = NoSubmits
    /\ health = NoHealth

NextClassify == Classify

SpecClassify == InitClassify /\ [][NextClassify]_vars

(***************************************************************************)
(* Two concurrent submit_to_competition invocations of the CLI deployment  *)
(* (part_001, lines 592-674).  Each runs the handler of the single-        *)
(* invocation model; the two share ./temp_submissions and interleave at    *)
(* every await.  The submit subprocess reads the file named on its command *)
(* line at some moment between its start and its end.                      *)
(***************************************************************************)

NoFile == "<no file>"

\* The content of the file at `path`, or NoFile
FileContent(files, path) ==
    IF \E f \in files : f.path = path
    THEN (CHOOSE f \in files : f.path = path).content
    ELSE NoFile

SubmitArgs ==
    { [competition_id |-> Str("titanic"), file_content |-> f, filename |-> n,
       message |-> Undef] :
        f \in {Str("id,y\n1,0\n"), Str("id,y\n1,1\n")},
        n \in {Str("submission.csv"), Str("second.csv")} }

\* The ways the awaited operation of a submission settles
SubmitOutcomes(call) ==
    IF call.op = "exec"
    THEN { ExecOk(OutText("Successfully submitted to Titanic"), ""),
           ExecFail("Command failed: " \o call.target \o "\n403 - Forbidden",
                    "403 - Forbidden") }
    ELSE FsOutcomes

subOther == <<msg, cls, nCalls, variant, config, srv, probe, toRegister, callHandler,
              registry, inv, trace, extCalls, response, health>>

\* The position of a submission after a handler step
SubAfter(cur, step) ==
    IF step.done
    THEN [cur EXCEPT !.pc = "done", !.call = NoCall,
                     !.response = Respond("cli", step.ret)]
    ELSE [cur EXCEPT !.pc = "await", !.st = step.args, !.call = step.call]

InitSubmit ==
    /\ msg = ""
    /\ cls = NoClassification
    /\ nCalls = 0
    /\ variant = "cli"
    /\ config = [username |-> "alice", key |-> "s3cret"]
    /\ srv = "serving"
    /\ probe = "none"
    /\ toRegister = <<>>
    /\ callHandler = "none"
    /\ registry = Range(ToolsOf("cli"))
    /\ inv = Idle
    /\ trace = <<>>
    /\ extCalls = 0
    /\ fsTemp = {}
    /\ response = NoResponse
    /\ subs = NoSubmits
    /\ health = NoHealth

\* A submit_to_competition request arrives and its handler runs to the
\* await of mkdir
SubmitCalled ==
    \E i \in 1..2 : \E args \in SubmitArgs :
        /\ subs[i].pc = "idle"
        /\ subs' = [subs EXCEPT ![i] =
                       SubAfter(@, C_submit_to_competition_start(args, config))]
        /\ UNCHANGED fsTemp
        /\ UNCHANGED subOther

\* The running `kaggle competitions submit -f <file>` reads its file
SubmitReads ==
    \E i \in 1..2 :
        /\ subs[i].pc = "await"
        /\ subs[i].call.op = "exec"
        /\ subs[i].read = NotRead
        /\ subs' = [subs EXCEPT ![i].read =
                       FileContent(fsTemp, C_tempFilePath(subs[i].st.a))]
        /\ UNCHANGED fsTemp
        /\ UNCHANGED subOther

\* The awaited operation of one submission settles and its handler runs on
SubmitSettles ==
    \E i \in 1..2 :
        /\ subs[i].pc = "await"
        /\ subs[i].call.op = "exec" => subs[i].read # NotRead
        /\ \E outcome \in SubmitOutcomes(subs[i].call) :
              /\ subs' = [subs EXCEPT ![i] =
                             SubAfter(@, C_submit_to_competition_resume(
                                            subs[i].st, subs[i].call.stage, outcome))]
              /\ fsTemp' = FsEffect(fsTemp, subs[i].call, outcome)
        /\ UNCHANGED subOther

NextSubmit == SubmitCalled \/ SubmitReads \/ SubmitSettles

SpecSubmit == InitSubmit /\ [][NextSubmit]_vars

(***************************************************************************)
(* The download operations seen from their caller: downloadDataset and     *)
(* downloadCompetitionData of KaggleService (kaggle.service.ts, lines      *)
(* 116-140 and 173-197), whose DownloadResult the handlers only partly     *)
(* pass on, and the CLI handler of download_competition_data (part_001,    *)
(* lines 477-573), which builds its outcome itself.  `response` holds the  *)
(* object returned.                                                        *)
(***************************************************************************)

DownloadCalls ==
    { [variant |-> "modular", tool |-> "download_kaggle_dataset",
       args |-> [dataset_ref |-> r, download_path |-> p]] :
        r \in {Str("alice/iris"), Str("a/b")}, p \in {Undef, Str(""), Str("/tmp/data")} }
    \cup
    { [variant |-> v, tool |-> "download_competition_data",
       args |-> [competition_id |-> c, download_path |-> p]] :
        v \in {"modular", "cli"}, c \in {Str("titanic"), Str("a_b-1")},
        p \in {Undef, Str(""), Str("/tmp/data")} }

dlOther == <<msg, cls, nCalls, srv, probe, toRegister, callHandler, registry, trace,
             fsTemp, subs, health>>

InitDownload ==
    /\ msg = ""
    /\ cls = NoClassification
    /\ nCalls = 0
    /\ variant \in {"modular", "cli"}
    /\ config \in Configs
    /\ srv = "serving"
    /\ probe = "none"
    /\ toRegister = <<>>
    /\ callHandler = "none"
    /\ registry = {}
    /\ inv = Idle
    /\ trace = <<>>
    /\ extCalls = 0
    /\ fsTemp = {}
    /\ response = NoResponse
    /\ subs = NoSubmits
    /\ health = NoHealth

\* The object a finished CLI handler returns
CliOutcome(step) == PayloadResponse(step.ret.body, FALSE)

\* A download is called and runs to its await of the subprocess (or to its
\* end, the credentials missing)
DownloadCalled ==
    /\ inv.pc = "idle"
    /\ \E c \in DownloadCalls :
         /\ c.variant = variant
         /\ LET cur == [Idle EXCEPT !.name = c.tool, !.ran = c.tool, !.input = c.args] IN
            IF variant = "cli"
            THEN LET step == C_download_competition_data_start(c.args, config) IN
                 /\ inv' = AfterStep(cur, step)
                 /\ response' = IF step.done THEN CliOutcome(step) ELSE NoResponse
                 /\ extCalls' = IF step.done THEN 0 ELSE 1
            ELSE LET path == IF c.tool = "download_kaggle_dataset"
                             THEN downloadDataset_path(c.args.dataset_ref,
                                                       c.args.download_path)
                             ELSE downloadCompetitionData_path(c.args.competition_id,
                                                               c.args.download_path)
                     command == IF c.tool = "download_kaggle_dataset"
                                THEN downloadDataset_command(c.args.dataset_ref, path)
                                ELSE downloadCompetitionData_command(
                                        c.args.competition_id, path)
                 IN  IF credentialsMissing(config)
                     THEN /\ inv' = [cur EXCEPT !.pc = "done"]
                          /\ response' = PayloadResponse(
                                 download_result(executeCommand_rejected, path), FALSE)
                          /\ extCalls' = 0
                     ELSE /\ inv' = [cur EXCEPT !.pc = "await", !.args = path,
                                                !.call = ExecCall(command, 300000)]
                          /\ response' = NoResponse
                          /\ extCalls' = 1
    /\ UNCHANGED <<variant, config>>
    /\ UNCHANGED dlOther

\* The subprocess ends and the download returns
DownloadSettles ==
    /\ inv.pc = "await"
    /\ \E outcome \in ExecOutcomes(inv.ran, inv.call) :
         IF variant = "cli"
         THEN LET step == C_download_competition_data_resume(inv.args, inv.call.stage,
                                                             outcome) IN
              /\ inv' = AfterStep([inv EXCEPT !.last = outcome], step)
              /\ response' = IF step.done THEN CliOutcome(step) ELSE NoResponse
              /\ extCalls' = IF step.done THEN extCalls ELSE extCalls + 1
         ELSE /\ inv' = [inv EXCEPT !.pc = "done", !.call = NoCall, !.last = outcome]
              /\ response' = PayloadResponse(
                     download_result(executeCommand_settled(outcome), inv.args), FALSE)
              /\ UNCHANGED extCalls
    /\ UNCHANGED <<variant, config>>
    /\ UNCHANGED dlOther

\* The caller takes the result; the next call may come
DownloadReturned ==
    /\ inv.pc = "done"
    /\ inv' = Idle
    /\ response' = NoResponse
    /\ extCalls' = 0
    /\ UNCHANGED <<variant, config>>
    /\ UNCHANGED dlOther

NextDownload == DownloadCalled \/ DownloadSettles \/ DownloadReturned

SpecDownload == InitDownload /\ [][NextDownload]_vars

(***************************************************************************)
(* Properties of the error classifier (checked under SpecClassify)         *)
(***************************************************************************)

\* The message, lower-cased, holds one of the keywords
HasKeyword(m, keywords) == \E kw \in keywords : includes(toLowerCase(m), kw)

C8_StatedTable ==
    << [category |-> AUTHENTICATION, keywords |-> {"credential", "authentication"}],
       [category |-> VALIDATION, keywords |-> {"validation", "invalid"}],
       [category |-> COMMAND_EXECUTION, keywords |-> {"404", "403", "command", "exec"}],
       [category |-> FILE_SYSTEM, keywords |-> {"file", "directory"}],
       [category |-> NETWORK, keywords |-> {"network", "timeout", "connection"}] >>

\* ... and with ExternalExecution selected by a CLI invocation failure only
C8_AmendedTable ==
    [C8_StatedTable EXCEPT ![3].keywords = {"command", "exec"}]

\* The category of the first row of the table the message matches
FirstMatch(table, m) ==
    LET rows == { i \in 1..Len(table) : HasKeyword(m, table[i].keywords) } IN
    IF rows = {} THEN UNKNOWN
    ELSE table[CHOOSE i \in rows : \A j \in rows : i <= j].category

Done == inv.pc = "done"

\* The payload is a failure of the given category and code: it says so
\* itself, or the classifier says so of its error text
IsFailureOf(r, category, code) ==
    /\ r.kind = "payload"
    /\ "error" \in DOMAIN r.body
    /\ \/ "code" \in DOMAIN r.body /\ r.body.code = code
       \/ /\ categorizeError(r.body.error) = category
          /\ getErrorCode(r.body.error, category) = code

\* C1 as stated: with the identity or the secret empty, every tool
\* invocation returns an Authentication/MissingCredentials failure and makes
\* no external call.
C1_AsStated ==
    (Done /\ inv.ran # "none" /\ credentialsMissing(config))
        => /\ extCalls = 0
           /\ IsFailureOf(response, AUTHENTICATION, MISSING_CREDENTIALS)

\* The tools whose handlers validate their raw input themselves
SelfValidating == {"modular", "standalone"}

\* The raw input fails the schema of the tool (src/src/utils/validation.ts,
\* lines 4-27)
SchemaRejects(tool, input) ==
    \/ input.kind # "object"
    \/ /\ tool \in {"search_kaggle_datasets", "search_kaggle_competitions"}
       /\ QueryIssues(Get(input, "query")) # <<>>
    \/ /\ tool = "download_kaggle_dataset"
       /\ \/ DatasetRefIssues(Get(input, "dataset_ref")) # <<>>
          \/ OptionalStringIssues(Get(input, "download_path")) # <<>>
    \/ /\ tool = "download_competition_data"
       /\ \/ CompetitionIdIssues(Get(input, "competition_id")) # <<>>
          \/ OptionalStringIssues(Get(input, "download_path")) # <<>>

Events == Range(trace)

\* C2: in every invocation of a tool that validates its input, validation
\* comes strictly before the Executor, the credential check and any external
\* call; when the raw input fails the schema the invocation ends without
\* entering the Executor, without looking at the credentials and without an
\* external call.
C2_ValidationFirst ==
    (variant \in SelfValidating /\ inv.ran # "none") =>
        /\ \A i \in 1..Len(trace) :
              trace[i] \in {"executor", "credcheck", "external"}
                  => \E j \in 1..(i - 1) : trace[j] = "validate"
        /\ SchemaRejects(inv.ran, inv.input) =>
              /\ Done
              /\ Events \cap {"executor", "credcheck", "external"} = {}
              /\ extCalls = 0
              /\ response.kind = "payload"
              /\ "error" \in DOMAIN response.body

\* C2 witness: a dataset search with an empty query has been answered.
C2_Witness ==
    /\ Done
    /\ variant \in SelfValidating
    /\ inv.ran = "search_kaggle_datasets"
    /\ inv.input = RawObj([query |-> Str("")])
    /\ "validate" \in Events
    /\ "error" \in DOMAIN response.body

\* C3: a name that is not registered is answered by the dispatcher with an
\* "Unknown tool" error of its own kind (thrown, where every handler's
\* answer is a payload), which has not been through the classifier, and no
\* tool handler has run.
C3_UnknownTool ==
    (Done /\ inv.name \notin Range(ToolsOf(variant))) =>
        /\ response.kind = "thrown"
        /\ response.error = "Unknown tool: " \o inv.name
        /\ ~response.classified
        /\ "classifier" \notin Events
        /\ inv.ran = "none"
        /\ trace = <<>>
        /\ extCalls = 0

\* C3 witness: a request for a name outside the registry has been answered.
C3_Witness ==
    /\ Done
    /\ inv.name = UnknownTool
    /\ response.kind = "thrown"

\* C4 as stated: every invocation, whatever the name and the input, is
\* answered with one JSON payload; no exception reaches the caller.
C4_AsStated == Done => response.kind = "payload"

\* C5 as stated: once all tools are registered, a request for a registered
\* name runs that tool's own handler and is never answered "unknown tool".
C5_AsStated ==
    (Done /\ inv.name \in Range(ToolsOf(variant))) =>
        /\ inv.ran = inv.name
        /\ response.kind # "thrown"

\* C6 as stated: when a submit_to_competition invocation that created its
\* temporary file returns, the file no longer exists.
C6_AsStated ==
    (Done /\ inv.ran = "submit_to_competition" /\ inv.created) =>
        ~ \E f \in fsTemp : f.path = C_tempFilePath(inv.input)

Min(a, b) == IF a <= b THEN a ELSE b

\* The external search operation succeeded and printed a list of entries
ListedUpstream ==
    /\ inv.last.kind = "ok"
    /\ trim(inv.last.stdout.text) # ""
    /\ inv.last.stdout.json.ok
    /\ inv.last.stdout.json.isArray

\* C9: a dataset or competition search of KaggleService over an upstream
\* list of n entries returns exactly min(n, 10) records, the i-th of them
\* the normalisation of the i-th upstream entry.
C9_FirstTen ==
    (/\ Done
     /\ variant \in SelfValidating
     /\ inv.ran \in {"search_kaggle_datasets", "search_kaggle_competitions"}
     /\ ListedUpstream) =>
        LET upstream == inv.last.stdout.json.items IN
        /\ response.kind = "payload"
        /\ "results" \in DOMAIN response.body
        /\ Len(response.body.results) = Min(Len(upstream), 10)
        /\ \A i \in 1..Len(response.body.results) :
              response.body.results[i] =
                  IF inv.ran = "search_kaggle_datasets"
                  THEN normalizeDataset(upstream[i])
                  ELSE normalizeCompetition(upstream[i])

\* C9 witness: a dataset search over more than ten upstream entries has
\* returned ten records.
C9_Witness ==
    /\ Done
    /\ variant \in SelfValidating
    /\ inv.ran = "search_kaggle_datasets"
    /\ ListedUpstream
    /\ Len(inv.last.stdout.json.items) > 10
    /\ Len(response.body.results) = 10

\* The search operation succeeded and found nothing: it printed nothing, or
\* an empty list
SucceededEmpty(o) ==
    /\ \/ o.kind = "ok"
       \/ o.kind = "http" /\ o.status = 200
    /\ \/ trim(o.stdout.text) = ""
       \/ o.stdout.json.isArray /\ o.stdout.json.items = <<>>

\* The search operation failed
Failed(o) ==
    \/ o.kind \in {"fail", "reject"}
    \/ o.kind = "http" /\ o.status # 200

\* C10 as stated: a dataset search whose external operation succeeds with
\* empty output returns {message: "No datasets found matching the query.",
\* results: []} with no error field, and one whose external operation fails
\* returns a payload with an error field.
C10_AsStated ==
    (Done /\ inv.ran = "search_kaggle_datasets" /\ inv.last.kind # "none") =>
        /\ SucceededEmpty(inv.last) =>
              /\ response.kind = "payload"
              /\ response.body = [message |-> "No datasets found matching the query.",
                                  results |-> <<>>]
        /\ Failed(inv.last) =>
              /\ response.kind = "payload"
              /\ "error" \in DOMAIN response.body

\* The value is null or undefined
Nullish(x) == x.t \in {"undefined", "null"}

DatasetRecordFields ==
    {"ref", "title", "subtitle", "downloadCount", "lastUpdated", "usabilityRating"}

\* The invocation has answered with a list of results
HasResults == Done /\ response.kind = "payload" /\ "results" \in DOMAIN response.body

\* C11: every record a dataset search returns has all of ref, title,
\* subtitle, downloadCount, lastUpdated and usabilityRating, none of them
\* null or undefined; where the upstream entry has no downloadCount the
\* record has downloadCount 0, and where it lacks one of the string fields
\* ref, title, subtitle, lastUpdated the record has "N/A" there.
C11_DatasetDefaults ==
    (HasResults /\ inv.ran = "search_kaggle_datasets") =>
        \A i \in 1..Len(response.body.results) :
            LET rec == response.body.results[i]
                up == inv.last.stdout.json.items[i]
            IN  /\ DatasetRecordFields \subseteq DOMAIN rec
                /\ \A f \in DatasetRecordFields : ~Nullish(rec[f])
                /\ Nullish(up.downloadCount) => rec.downloadCount = Num(0)
                /\ \A f \in {"ref", "title", "subtitle", "lastUpdated"} :
                      Nullish(up[f]) => rec[f] = Str("N/A")

\* C11 witness: a dataset search has returned a record for an upstream
\* entry without title and without downloadCount.
C11_Witness ==
    /\ HasResults
    /\ inv.ran = "search_kaggle_datasets"
    /\ variant \in SelfValidating
    /\ Len(response.body.results) >= 1
    /\ inv.last.stdout.json.items[1].title = Undef
    /\ inv.last.stdout.json.items[1].downloadCount = Undef
    /\ response.body.results[1].title = Str("N/A")
    /\ response.body.results[1].downloadCount = Num(0)

\* A competition search whose results are the upstream entries in upstream
\* order (the REST deployment with a status filter drops entries first)
UnfilteredCompetitionSearch ==
    /\ HasResults
    /\ inv.ran = "search_kaggle_competitions"
    /\ variant = "rest" => (Falsy(inv.input.status) \/ inv.input.status = Str("all"))

\* The first 200 characters of d
First200(d) == SubSeq(d, 1, Min(Len(d), 200))

\* C12 as stated: for every upstream description d, of any length, the
\* normalised description is the first 200 characters of d followed by
\* "...", and a missing description gives "N/A...".
C12_AsStated ==
    UnfilteredCompetitionSearch =>
        \A i \in 1..Len(response.body.results) :
            LET d == inv.last.stdout.json.items[i].description
                out == response.body.results[i].description
            IN  /\ IsString(d) => out = Str(First200(d.v) \o "...")
                /\ Nullish(d) => out = Str("N/A...")

\* C12 (amended): for every non-empty upstream description d, of any
\* length, the normalised description is the first 200 characters of d
\* followed by "..." (appended also when nothing was cut); a missing, null
\* or empty description gives "N/A...".
C12_Description ==
    UnfilteredCompetitionSearch =>
        \A i \in 1..Len(response.body.results) :
            LET d == inv.last.stdout.json.items[i].description
                out == response.body.results[i].description
            IN  /\ (IsString(d) /\ d.v # "") => out = Str(First200(d.v) \o "...")
                /\ (Nullish(d) \/ d = Str("")) => out = Str("N/A...")

\* C12 witness: a competition search has returned a description of 50
\* characters with the ellipsis appended.
C12_Witness ==
    /\ UnfilteredCompetitionSearch
    /\ variant \in SelfValidating
    /\ Len(response.body.results) >= 1
    /\ IsString(inv.last.stdout.json.items[1].description)
    /\ Len(inv.last.stdout.json.items[1].description.v) = 50
    /\ response.body.results[1].description
          = Str(inv.last.stdout.json.items[1].description.v \o "...")

DownloadTools == {"download_kaggle_dataset", "download_competition_data"}

\* The deployments whose download tools write to a directory (the REST
\* deployment only reports download URLs)
DownloadingVariants == {"modular", "standalone", "cli"}

\* The arguments of the running invocation as the caller sent them
CallerArgs == IF variant \in SelfValidating THEN inv.input.f ELSE inv.input

\* The part of a dataset reference after its slash
AfterSlash(s) ==
    LET i == CHOOSE k \in 1..Len(s) : SubSeq(s, k, k) = "/" IN SubSeq(s, i + 1, Len(s))

\* The path the download is to use: the caller's, when one is given (an
\* empty string is no path), and the default directory otherwise
EffectivePath(tool, a) ==
    IF IsString(a.download_path) /\ a.download_path.v # "" THEN a.download_path.v
    ELSE IF tool = "download_kaggle_dataset"
    THEN "./datasets/" \o AfterSlash(a.dataset_ref.v)
    ELSE "./competitions/" \o a.competition_id.v

SegmentChars == WordChars \o "-."

IsSegmentChar(c) == \E k \in 1..Len(SegmentChars) : SubSeq(SegmentChars, k, k) = c

\* Exactly two non-empty segments of segment characters separated by a
\* single slash
WellFormedRef(s) ==
    LET slashes == { k \in 1..Len(s) : SubSeq(s, k, k) = "/" } IN
    /\ Cardinality(slashes) = 1
    /\ 1 \notin slashes
    /\ Len(s) \notin slashes
    /\ \A k \in (1..Len(s)) \ slashes : IsSegmentChar(SubSeq(s, k, k))

\* C14: the dataset download validator rejects, before the Executor is
\* entered and before any external call, every dataset_ref that is not
\* exactly two non-empty segments of word characters, hyphens and dots
\* separated by a single slash, and it accepts "a/b" (the handler goes on
\* to the Executor).
C14_DatasetRefFormat ==
    (variant \in SelfValidating /\ inv.ran = "download_kaggle_dataset"
       /\ inv.input.kind = "object") =>
        LET r == Get(inv.input, "dataset_ref")
            p == Get(inv.input, "download_path")
        IN  /\ (~IsString(r) \/ ~WellFormedRef(r.v)) =>
                  /\ Done
                  /\ Events \cap {"executor", "credcheck", "external"} = {}
                  /\ extCalls = 0
                  /\ response.kind = "payload"
                  /\ "error" \in DOMAIN response.body
            /\ (r = Str("a/b") /\ p.t \in {"undefined", "string"}) =>
                  "executor" \in Events

\* C14 witness: a download of "not-a-ref" has been answered with an error
\* and nothing was executed.
C14_Witness ==
    /\ Done
    /\ variant \in SelfValidating
    /\ inv.ran = "download_kaggle_dataset"
    /\ inv.input.kind = "object"
    /\ Get(inv.input, "dataset_ref") = Str("not-a-ref")
    /\ trace = <<"validate">>
    /\ "error" \in DOMAIN response.body

CompetitionIdTools ==
    {"get_competition_details", "download_competition_data", "submit_to_competition"}

\* The competition id of the running invocation as the caller sent it
CallerCompetitionId ==
    IF variant \in SelfValidating THEN Get(inv.input, "competition_id")
    ELSE inv.input.competition_id

IdChars == WordChars \o "-"

\* An id that is empty, longer than 50 characters or has a character that
\* is neither a word character nor a hyphen
MalformedCompetitionId(x) ==
    /\ IsString(x)
    /\ \/ x.v = ""
       \/ Len(x.v) > 50
       \/ \E k \in 1..Len(x.v) :
             \A j \in 1..Len(IdChars) : SubSeq(IdChars, j, j) # SubSeq(x.v, k, k)

\* C15 as stated: every tool that takes a competition id rejects a
\* malformed id (empty, longer than 50 characters, or with characters other
\* than word characters and hyphens) before any external call: no such id
\* reaches an external command or request.
C15_AsStated ==
    (inv.ran \in CompetitionIdTools /\ MalformedCompetitionId(CallerCompetitionId)) =>
        /\ extCalls = 0
        /\ "external" \notin Events
        /\ inv.pc # "await"

\* The raw text of a failed external operation: the standard error of the
\* subprocess (its exception message when it wrote none), the message of a
\* rejected request, the status text of an HTTP error
RawFailureText(o) ==
    IF o.kind = "fail" THEN (IF o.stderr # "" THEN o.stderr ELSE o.message)
    ELSE IF o.kind = "reject" THEN o.message
    ELSE IF o.kind = "http" /\ (o.status < 200 \/ o.status > 299) THEN o.statusText
    ELSE ""

\* C16 as stated: the raw failure text of the underlying operation never
\* appears verbatim in the payload returned to the caller.
C16_AsStated ==
    (Done /\ response.kind = "payload" /\ "error" \in DOMAIN response.body
       /\ RawFailureText(inv.last) # "") =>
        ~includes(response.body.error, RawFailureText(inv.last))

\* The invocation ended in a failure payload
FailurePayload == Done /\ response.kind = "payload" /\ "error" \in DOMAIN response.body

\* The failure is one of validation (the raw input fails the schema) or of
\* dispatch (no handler ran)
ValidationOrDispatchFailure ==
    \/ inv.ran = "none"
    \/ variant \in SelfValidating /\ SchemaRejects(inv.ran, inv.input)

\* C17 as stated: every failure that is not a validation or unknown-tool
\* failure has passed through the Error Classifier and carries a code of
\* its taxonomy; validation and dispatch failures reach neither the
\* Executor nor the Classifier.
C17_AsStated ==
    /\ (FailurePayload /\ ~ValidationOrDispatchFailure) =>
          /\ response.classified
          /\ "code" \in DOMAIN response.body
    /\ (Done /\ response.kind # "none" /\ ValidationOrDispatchFailure) =>
          /\ ~response.classified
          /\ "executor" \notin Events

\* The external operation was cut off by its timeout
TimedOut(o) == "killed" \in DOMAIN o /\ o.killed

ClassTimeout(tool) ==
    IF tool \in DownloadTools THEN 300000
    ELSE IF tool = "submit_to_competition" THEN 120000
    ELSE 60000

\* C19 as stated: every external operation is issued with the timeout of
\* its operation class (60 s for search, listing and metadata, 300 s for
\* downloads, 120 s for submissions), and none is issued without a timeout.
C19_AsStated ==
    (inv.pc = "await" /\ IsExternal(inv.call) /\ inv.call.stage = 1) =>
        /\ inv.call.timeout # 0
        /\ inv.call.timeout = ClassTimeout(inv.ran)

\* C20 as stated: when the external operation has exceeded its timeout the
\* invocation ends in a failure identified as a timeout (code Timeout, on
\* the payload or as the classifier's code for its text), never in a
\* success.
C20_AsStated ==
    (Done /\ TimedOut(inv.last)) =>
        /\ response.kind = "payload"
        /\ "success" \notin DOMAIN response.body
        /\ "error" \in DOMAIN response.body
        /\ \/ "code" \in DOMAIN response.body /\ response.body.code = TIMEOUT
           \/ getErrorCode(response.body.error, categorizeError(response.body.error))
                 = TIMEOUT

\* The external operation ended in failure: the subprocess failed, the
\* request was rejected, or the response has an error status
FailedOutcome(o) ==
    \/ o.kind \in {"fail", "reject"}
    \/ o.kind = "http" /\ (o.status < 200 \/ o.status > 299)

\* The response tells the caller of a failure
Surfaced(r) ==
    \/ r.kind = "thrown"
    \/ r.kind = "payload" /\ "error" \in DOMAIN r.body /\ "success" \notin DOMAIN r.body

\* The step in which an awaited external operation settles in failure
ExternalFails ==
    /\ inv.pc = "await"
    /\ IsExternal(inv.call)
    /\ inv'.pc # "idle"
    /\ FailedOutcome(inv'.last)

\* The file listing after a competition download of the CLI deployment
\* (part_001, lines 515-523), whose failure is ignored
BestEffortListing ==
    variant = "cli" /\ inv.ran = "download_competition_data" /\ inv.call.stage = 2

\* C21 as stated: an external operation that failed is never issued again
\* within the invocation, and each failure is surfaced to the caller in the
\* single response of that invocation.
C21_AsStated ==
    [][ExternalFails => (inv'.pc = "done" /\ extCalls' = extCalls /\ Surfaced(response'))]_vars

\* C21 (amended): an external operation that failed is never issued again
\* (the invocation ends in the step in which the failure arrives, with no
\* further external call), and each failure other than that of the
\* best-effort file listing after a competition download is surfaced to the
\* caller in the single response of that invocation.
C21_NoRetry ==
    [][ExternalFails =>
          /\ inv'.pc = "done"
          /\ extCalls' = extCalls
          /\ BestEffortListing \/ Surfaced(response')]_vars

\* C21 witness: the first of the two requests of a REST dataset download
\* has failed; the invocation is over with one external call made and the
\* failure in its response.
C21_Witness ==
    /\ Done
    /\ variant = "rest"
    /\ inv.ran = "download_kaggle_dataset"
    /\ FailedOutcome(inv.last)
    /\ extCalls = 1
    /\ Surfaced(response)

\* C22 as stated: in every interleaving of two concurrent
\* submit_to_competition invocations, the same filename included, the
\* submit call of each reads exactly the file content passed to that
\* invocation (the other's write or cleanup has neither changed nor removed
\* the file before it was submitted).
C22_AsStated ==
    \A i \in 1..2 :
        (subs[i].pc # "idle" /\ subs[i].read # NotRead) =>
            subs[i].read = Template(subs[i].st.a.file_content)

\* C23: the health surface always answers with a process status, a
\* timestamp and the outcome of the credential probe; when the probe finds
\* the credentials invalid or its external call fails, the answer is still
\* status "healthy" with HTTP status 200 and kaggle_credentials "invalid".
C23_HealthNeverFails ==
    health.pc = "done" =>
        /\ {"status", "timestamp", "kaggle_credentials"} \subseteq DOMAIN health.body
        /\ health.code = 200
        /\ health.body.status = "healthy"
        /\ health.body.timestamp = Now
        /\ health.body.kaggle_credentials
              = IF health.probed /\ health.probeOk THEN "valid" ELSE "invalid"

\* C23 witness: a health request whose probe failed has been answered.
C23_Witness ==
    /\ health.pc = "done"
    /\ health.probed
    /\ ~health.probeOk
    /\ health.code = 200
    /\ health.body.kaggle_credentials = "invalid"

\* The deployments that read their credentials from the environment and
\* validate it at startup
EnvValidating == {"modular", "standalone"}

\* C24: when KAGGLE_USERNAME or KAGGLE_KEY is missing or empty at startup
\* the process never gets past the validation of its environment: it is
\* still booting or has exited with status 1, no tool is registered, no
\* request handler is installed, the startup probe has not run, the server
\* is not listening, and no tool invocation or health request has been
\* served.
C24_FatalConfig ==
    (variant \in EnvValidating /\ (config.username = "" \/ config.key = "")) =>
        /\ srv \in {"boot", "exit(1)"}
        /\ toRegister = ToolsOf(variant)
        /\ registry = {}
        /\ callHandler = "none"
        /\ probe = "none"
        /\ inv = Idle
        /\ response = NoResponse
        /\ health = NoHealth

\* C24 witness: a process started without its key has exited.
C24_Witness ==
    /\ variant \in EnvValidating
    /\ config.username # ""
    /\ config.key = ""
    /\ srv = "exit(1)"
    /\ registry = {}
    /\ callHandler = "none"

\* C25: in the deployments that probe their credentials at startup, the
\* server starts listening only out of the probe's external call, and
\* whatever that call gives (valid, invalid, a failure of any kind) the
\* next step of startup is the start of the listener, with the result
\* recorded and nothing else changed.
C25_ProbeAdvisory ==
    [][/\ srv = "probing" => (srv' = "serving" /\ probe' \in {"valid", "invalid"})
       /\ (variant \in EnvValidating /\ srv # "serving" /\ srv' = "serving") =>
             srv = "probing"]_vars

\* C25 witness: a server whose startup probe found the credentials invalid
\* has answered a tool invocation.
C25_Witness ==
    /\ variant \in EnvValidating
    /\ probe = "invalid"
    /\ srv = "serving"
    /\ Done
    /\ inv.ran # "none"
    /\ response.kind = "payload"

\* The names a call of the serving process dispatches to a handler
Dispatchable ==
    { n \in Range(ToolsOf(variant)) \cup {UnknownTool} :
        Dispatches(variant, callHandler, registry, n) }

\* C26 as stated: list tools returns one entry for every registered tool
\* and none for another name, each entry with the tool's name, description
\* and input schema, and the listed names are exactly the names that invoke
\* dispatches.
C26_AsStated ==
    (srv = "serving" /\ variant \in EnvValidating) =>
        LET listed == ListTools(variant) IN
        /\ \A i, j \in 1..Len(listed) : listed[i].name = listed[j].name => i = j
        /\ { listed[i].name : i \in 1..Len(listed) } = Range(ToolsOf(variant))
        /\ \A i \in 1..Len(listed) :
              {"name", "description", "inputSchema"} \subseteq DOMAIN listed[i]
        /\ { listed[i].name : i \in 1..Len(listed) } = Dispatchable

\* The failure text of an external operation contains "404"
Mentions404(o) ==
    \/ o.kind \in {"fail", "reject"} /\ (includes(o.message, "404") \/ includes(o.stderr, "404"))
    \/ o.kind = "http" /\ o.status = 404

\* C27 as stated: when a download_kaggle_dataset invocation fails and the
\* failure text of the external operation contains "404", the caller gets
\* exactly the error "Dataset '<ref>' not found or access denied." for the
\* requested ref, whether the executor threw or returned success=false.
C27_AsStated ==
    (Done /\ inv.ran = "download_kaggle_dataset" /\ Mentions404(inv.last)) =>
        /\ response.kind = "payload"
        /\ "error" \in DOMAIN response.body
        /\ response.body.error
              = "Dataset '" \o CallerArgs.dataset_ref.v \o "' not found or access denied."

\* The deadline of a returned competition record is later than now
DeadlineAhead(rec) == dateGreater(newDate(rec.deadline), Now)

\* The entries of the upstream list that `status` keeps
KeptByStatus(status, items) ==
    IF status = Str("active")
    THEN SelectSeq(items, LAMBDA c : dateGreater(newDate(c.deadline), Now))
    ELSE IF status = Str("completed")
    THEN SelectSeq(items, LAMBDA c : dateLessEq(newDate(c.deadline), Now))
    ELSE items

\* C28 as stated: search_kaggle_competitions honours its status input.  With
\* "active" every returned competition has a deadline later than now, with
\* "completed" none has; the result has the first at most 10 entries of the
\* filtered upstream list; a status outside {all, active, completed} is not
\* accepted (no search is made for it).
C28_AsStated ==
    (variant \in {"cli", "rest"} /\ inv.ran = "search_kaggle_competitions") =>
        /\ inv.input.status \notin {Undef, Str("all"), Str("active"), Str("completed")} =>
              extCalls = 0
        /\ HasResults =>
              LET results == response.body.results
                  kept == KeptByStatus(inv.input.status, inv.last.stdout.json.items)
              IN  /\ inv.input.status = Str("active") =>
                        \A i \in 1..Len(results) : DeadlineAhead(results[i])
                  /\ inv.input.status = Str("completed") =>
                        \A i \in 1..Len(results) : ~DeadlineAhead(results[i])
                  /\ Len(results) = Min(Len(kept), 10)

\* The fields of a download outcome, under the names of the DownloadResult
\* of KaggleService or of the payload of the CLI handler
OutcomePath(o) == IF "downloadPath" \in DOMAIN o THEN o.downloadPath ELSE o.download_path
OutcomeFiles(o) ==
    IF "downloadedFiles" \in DOMAIN o THEN o.downloadedFiles ELSE o.downloaded_files
OutcomeCount(o) == IF "fileCount" \in DOMAIN o THEN o.fileCount ELSE o.file_count
OutcomeHasError(o) == "error" \in DOMAIN o /\ o.error # Undef

RefMatches(entry, id) == IsString(entry.ref) /\ includes(entry.ref.v, id)

\* C30 as stated: get_competition_details never returns the details of a
\* competition other than the requested one.  For a requested id X and an
\* upstream listing, either title, deadline and reward come from an
\* upstream entry whose ref matches X, or the payload is the error
\* "Competition 'X' not found"; id and url are built from X.
C30_AsStated ==
    (Done /\ variant = "cli" /\ inv.ran = "get_competition_details"
       /\ ListedUpstream /\ inv.last.stderr = "" /\ response.kind = "payload") =>
        LET X == inv.input.competition_id.v
            items == inv.last.stdout.json.items
            b == response.body
        IN  \/ b = [error |-> "Competition '" \o X \o "' not found"]
            \/ /\ {"id", "url", "title", "deadline", "reward"} \subseteq DOMAIN b
               /\ b.id = X
               /\ b.url = "https://www.kaggle.com/competitions/" \o X
               /\ \E i \in 1..Len(items) :
                     /\ RefMatches(items[i], X)
                     /\ b.title = OrElse(items[i].title, Str("N/A"))
                     /\ b.deadline = OrElse(items[i].deadline, Str("N/A"))
                     /\ b.reward = OrElse(items[i].reward, Str("N/A"))
====
